---- MODULE Spec2Model ----
(***************************************************************************)
(* Model of the Vizio SmartCast control client (src/vizio_control.py).     *)
(*                                                                         *)
(* The client is a synchronous library: every VizioTV method builds a      *)
(* request body, sends it through _make_request and turns the device's     *)
(* answer into a return value.  Each method is modelled as an operator     *)
(* from the session and the answers of the device to the "effect" of the   *)
(* call: the requests sent, the send_wol invocations, the lines printed    *)
(* and the value returned (or the exception raised).  One action per       *)
(* method draws the arguments and the device's answers and records the     *)
(* effect of the call; Return hands the result back to the caller.         *)
(*                                                                         *)
(* The web front end (src/vizio_flask.py) runs the same methods on one     *)
(* module-level VizioTV object from the threads of its server; SpecFlask   *)
(* follows those threads one exchange at a time.                           *)
(***************************************************************************)
EXTENDS Integers, Sequences, FiniteSets, TLC

VARIABLES
    tv,            \* the VizioTV object: ip, port, mac, auth_token, headers
    pc,            \* "idle": no call in progress; "done": a call has finished
    call,          \* the method invoked last and its arguments
    rcvd,          \* the answers of the device to the requests of that call
    sent,          \* the requests that call sent, in order
    wol,           \* the send_wol invocations of that call, in order
    out,           \* the lines that call printed, in order
    result,        \* what the call returned: ret, val, exc
    prev_hashval,  \* history: the HASHVAL read by the latest earlier set_input
    log,           \* the order of that call's requests, wake packets and saves
    config,        \* the content of the config file ({} when there is none)
    web            \* the request each thread of the web server is handling

vars == <<tv, pc, call, rcvd, sent, wol, out, result, prev_hashval, log, config, web>>

(***************************************************************************)
(* Bounds of the model.                                                    *)
(***************************************************************************)
MaxChannelLen == 3      \* longest channel string tried

(***************************************************************************)
(* Python / JSON values.  A scalar is a tagged record, so that None, 0,    *)
(* "" and real values can be told apart and tested for truthiness.         *)
(***************************************************************************)
JNull == [ty |-> "null", n |-> 0, s |-> ""]
JInt(i) == [ty |-> "int", n |-> i, s |-> ""]
JStr(x) == [ty |-> "str", n |-> 0, s |-> x]

\* Python truthiness of a scalar: None, 0 and "" are falsy.
Truthy(v) ==
    CASE v.ty = "int" -> v.n # 0
      [] v.ty = "str" -> v.s # ""
      [] OTHER -> FALSE

\* The empty JSON object {}.
EmptyObj == [k \in {} |-> JNull]

\* dict.get(key, default)
Get(d, k, default) == IF k \in DOMAIN d THEN d[k] ELSE default

(***************************************************************************)
(* Answers of the device.  kind "response" is an HTTP response; every      *)
(* other kind is the exception requests.request raised instead.            *)
(*   body.valid : response.json() parses;  body.obj : the parsed object    *)
(*   text_invalid : response.text contains the substring "INVALID"         *)
(***************************************************************************)
Body(o) == [valid |-> TRUE, obj |-> o]
NotJson == [valid |-> FALSE, obj |-> EmptyObj]

Response(status, body, inv) ==
    [kind |-> "response", status_code |-> status, json |-> body, text_invalid |-> inv]

TransportError(k) ==
    [kind |-> k, status_code |-> 0, json |-> NotJson, text_invalid |-> FALSE]

\* Placeholder read when a call asks for more answers than were drawn.
Exhausted == TransportError("exhausted")

TransportErrors == {"ConnectTimeout", "ConnectionError", "ReadTimeout"}

StatusCodes == {200, 401, 500}

First(rs) == IF Len(rs) > 0 THEN rs[1] ELSE Exhausted
Drop(rs, n) == IF n >= Len(rs) THEN <<>> ELSE SubSeq(rs, n + 1, Len(rs))

\* All sequences over S of length 0..n.
RECURSIVE SeqsUpTo(_, _)
SeqsUpTo(S, n) ==
    IF n = 0 THEN {<<>>}
    ELSE LET shorter == SeqsUpTo(S, n - 1)
         IN  shorter \cup {Append(q, x) : q \in {p \in shorter : Len(p) = n - 1}, x \in S}

(***************************************************************************)
(* Effects of a call.                                                      *)
(*   ret : "True" | "False" | "None" | "Value" | "Raise"                   *)
(*   val : the value returned when ret = "Value"                           *)
(*   exc : the exception type when ret = "Raise"                           *)
(*   log : "request" | "wol" | "save", one entry per request sent, per     *)
(*         send_wol invocation and per config file written, in order       *)
(*   saved : the records written to the config file                        *)
(*   assigned : the attributes of self the call assigned, as               *)
(*         [attr, value], in order                                         *)
(***************************************************************************)
Eff0 ==
    [sent |-> <<>>, wol |-> <<>>, out |-> <<>>, log |-> <<>>, saved |-> <<>>,
     assigned |-> <<>>,
     ret |-> "None", val |-> JNull, exc |-> ""]

\* b runs after a; the outcome is b's.
Then(a, b) ==
    [sent |-> a.sent \o b.sent, wol |-> a.wol \o b.wol, out |-> a.out \o b.out,
     log |-> a.log \o b.log, saved |-> a.saved \o b.saved,
     assigned |-> a.assigned \o b.assigned,
     ret |-> b.ret, val |-> b.val, exc |-> b.exc]

Says(e, lines) == [e EXCEPT !.out = @ \o lines]
Returns(e, r) == [e EXCEPT !.ret = r, !.val = JNull, !.exc = ""]
ReturnsValue(e, v) == [e EXCEPT !.ret = "Value", !.val = v, !.exc = ""]
Raises(e, x) == [e EXCEPT !.ret = "Raise", !.val = JNull, !.exc = x]

(***************************************************************************)
(* VizioTV.__init__                                                        *)
(***************************************************************************)
Port == 7345

\* A session whose requests never carry the token.
headers_without_auth(auth_token) == [Content_Type |-> "application/json"]

\* lines 26-30: Content-Type always, AUTH only for a token that is truthy.
headers(auth_token) ==
    IF Truthy(auth_token)
    THEN [Content_Type |-> "application/json", AUTH |-> auth_token.s]
    ELSE [Content_Type |-> "application/json"]

VizioTV(ip_address, auth_token, ip_mac) ==
    [ip |-> ip_address,
     port |-> Port,
     mac |-> ip_mac,
     auth_token |-> auth_token,
     headers |-> headers(auth_token)]

\* The object after the assignments self.<attr> = value of a call.
RECURSIVE setattrs(_, _)
setattrs(self, assigned) ==
    IF assigned = <<>> THEN self
    ELSE setattrs([self EXCEPT ![assigned[1].attr] = assigned[1].value], Tail(assigned))

(***************************************************************************)
(* VizioTV._make_request: one exchange.  The request is sent with the      *)
(* session's headers whatever they are; an exception of requests is        *)
(* printed and turned into None.                                           *)
(***************************************************************************)
IsNone(response) == response.kind # "response"

\* bool(response) of requests: response.ok, i.e. status below 400
Ok(response) == ~IsNone(response) /\ response.status_code < 400

\* A _make_request that sends the request a second time when the first
\* attempt got no response.
_make_request_retry(self, method, endpoint, data, rs) ==
    LET req == [method |-> method, ip |-> self.ip, port |-> self.port,
                endpoint |-> endpoint, headers |-> self.headers, data |-> data]
    IN  IF IsNone(First(rs))
        THEN [eff |-> [Eff0 EXCEPT !.sent = <<req, req>>, !.log = <<"request", "request">>],
              response |-> First(Drop(rs, 1))]
        ELSE [eff |-> [Eff0 EXCEPT !.sent = <<req>>, !.log = <<"request">>],
              response |-> First(rs)]

_make_request(self, method, endpoint, data, rs) ==
    LET r == First(rs)
        req == [method |-> method, ip |-> self.ip, port |-> self.port,
                endpoint |-> endpoint, headers |-> self.headers, data |-> data]
        said == CASE r.kind = "response" -> <<>>
                  [] r.kind = "ConnectTimeout" -> <<"ERROR: Connection timeout">>
                  [] r.kind = "ConnectionError" -> <<"ERROR: Cannot connect">>
                  [] OTHER -> <<"ERROR: Unexpected error">>
    IN  [eff |-> [Eff0 EXCEPT !.sent = <<req>>, !.out = said, !.log = <<"request">>],
         response |-> r]

(***************************************************************************)
(* Pairing: VizioTV.pair_start, VizioTV.pair_finish                        *)
(***************************************************************************)
\* A pair_start that does not look at the status.
pair_start_any_status(response) == TRUE

\* line 66: "if response.status_code == 200"
pair_start_ok(response) == response.status_code = 200

pair_start(self, device_name, rs) ==
    LET data == [DEVICE_NAME |-> device_name, DEVICE_ID |-> device_name]
        m == _make_request(self, "PUT", "/pairing/start", data, rs)
        response == m.response
        result_ == response.json.obj
        item == Get(result_, "ITEM", EmptyObj)
        pairing_token == Get(item, "PAIRING_REQ_TOKEN", JNull)
    IN  IF IsNone(response) THEN Returns(m.eff, "None")
        ELSE IF pair_start_ok(response)
        THEN IF ~response.json.valid THEN Raises(m.eff, "JSONDecodeError")
             ELSE IF Truthy(pairing_token)
             THEN ReturnsValue(Says(m.eff, <<"Pairing initiated">>), pairing_token)
             ELSE Returns(Says(m.eff, <<"ERROR: No pairing token in response">>), "None")
        ELSE Returns(Says(m.eff, <<"ERROR: Pairing failed with status">>), "None")

\* int(x) of Python on the pairing tokens of the model: an int is itself, a
\* string of decimal digits is its number, any other string raises ValueError.
DecimalStrings == [s \in {"1234"} |-> 1234]
CanInt(v) == v.ty = "int" \/ (v.ty = "str" /\ v.s \in DOMAIN DecimalStrings)
IntOf(v) == IF v.ty = "int" THEN v.n ELSE DecimalStrings[v.s]

\* A pair_finish that does not look at the status.
pair_finish_any_status(response) == TRUE

\* line 94: "if response.status_code == 200"
pair_finish_ok(response) == response.status_code = 200

\* line 108: "INVALID" in response.text
pair_finish_invalid(response) == response.text_invalid

\* A pair_finish that keeps the new token on the session it was called on.
pair_finish_paired_keeps_token(e, auth_token) ==
    [ReturnsValue(Says(e, <<"Pairing successful">>), auth_token)
        EXCEPT !.assigned = <<[attr |-> "auth_token", value |-> auth_token]>>]

\* lines 98-100: the token is printed and returned, nothing is stored.
pair_finish_paired(e, auth_token) ==
    ReturnsValue(Says(e, <<"Pairing successful">>), auth_token)

pair_finish(self, pairing_token, pin, rs) ==
    IF ~CanInt(pairing_token)
    THEN Raises(Eff0, IF pairing_token.ty = "null" THEN "TypeError" ELSE "ValueError")
    ELSE
    LET data == [DEVICE_ID |-> "PythonRemote",
                 PAIRING_REQ_TOKEN |-> IntOf(pairing_token),
                 CHALLENGE_TYPE |-> 1,
                 RESPONSE_VALUE |-> pin]
        m == _make_request(self, "PUT", "/pairing/pair", data, rs)
        response == m.response
        result_ == response.json.obj
        item == Get(result_, "ITEM", EmptyObj)
        auth_token == Get(item, "AUTH_TOKEN", JNull)
    IN  IF IsNone(response) THEN Returns(m.eff, "None")
        ELSE IF pair_finish_ok(response)
        THEN IF ~response.json.valid THEN Raises(m.eff, "JSONDecodeError")
             ELSE IF Truthy(auth_token)
             THEN pair_finish_paired(m.eff, auth_token)
             ELSE Returns(Says(m.eff, <<"ERROR: No auth token in response">>), "None")
        ELSE Returns(
               Says(m.eff, <<"ERROR: Pairing failed with status">>
                           \o (IF pair_finish_invalid(response)
                               THEN <<"The PIN may be incorrect or expired">>
                               ELSE <<>>)),
               "None")

(***************************************************************************)
(* send_wol: builds the magic packet from the MAC string and sends it as   *)
(* one datagram.  None has no replace(): AttributeError before anything is *)
(* sent.  net is what the socket does: "ok", or "OSError" when the         *)
(* datagram cannot be sent.  Returns the invocation record and whether an  *)
(* exception leaves the function.                                          *)
(***************************************************************************)
BroadcastIp == "255.255.255.255"
WolPort == 9

\* Text that the code takes apart is a sequence of characters.  Chars gives
\* the characters of the MAC strings that sessions and config files hold.
Chars(s) ==
    CASE s = "AA:BB:CC:DD:EE:FF" -> <<"A", "A", ":", "B", "B", ":", "C", "C", ":", "D", "D", ":", "E", "E", ":", "F", "F">>
      [] s = "aa:bb:cc:dd:ee:ff" -> <<"a", "a", ":", "b", "b", ":", "c", "c", ":", "d", "d", ":", "e", "e", ":", "f", "f">>
      [] OTHER -> <<>>

\* str.replace(old, ''): every occurrence of the character is removed.
replace(text, old) == SelectSeq(text, LAMBDA c : c # old)

\* text * n
RECURSIVE repeat(_, _)
repeat(text, n) == IF n = 0 THEN <<>> ELSE text \o repeat(text, n - 1)

\* The value of a hexadecimal digit, in either case.
HexValue ==
    [c \in {"0", "1", "2", "3", "4", "5", "6", "7", "8", "9",
            "a", "b", "c", "d", "e", "f", "A", "B", "C", "D", "E", "F"} |->
       CASE c = "0" -> 0 [] c = "1" -> 1 [] c = "2" -> 2 [] c = "3" -> 3 [] c = "4" -> 4
         [] c = "5" -> 5 [] c = "6" -> 6 [] c = "7" -> 7 [] c = "8" -> 8 [] c = "9" -> 9
         [] c \in {"a", "A"} -> 10 [] c \in {"b", "B"} -> 11 [] c \in {"c", "C"} -> 12
         [] c \in {"d", "D"} -> 13 [] c \in {"e", "E"} -> 14 [] OTHER -> 15]

IsHex(c) == c \in DOMAIN HexValue

\* int(x, 16) of a slice of one or two hexadecimal digits.
int16(x) == IF Len(x) = 1 THEN HexValue[x[1]] ELSE 16 * HexValue[x[1]] + HexValue[x[2]]

\* A send_wol that strips the colons only.
strip_separators_colons_only(mac_address) == replace(mac_address, ":")

\* line 566: mac_address.replace(':', '').replace('-', '')
strip_separators(mac_address) == replace(replace(mac_address, ":"), "-")

\* lines 569-572: the text 'FF' * 6 + mac * 16, packed two characters at a
\* time into bytes.
wol_data(mac_address) == repeat(<<"F", "F">>, 6) \o repeat(strip_separators(mac_address), 16)

\* int() raises ValueError on a slice that is not hexadecimal.
wol_data_raises(data) == \E i \in 1..Len(data) : ~IsHex(data[i])

wol_packet(data) ==
    [i \in 1..((Len(data) + 1) \div 2) |->
        int16(SubSeq(data, 2 * i - 1, IF 2 * i <= Len(data) THEN 2 * i ELSE 2 * i - 1))]

\* send_wol on the characters of the MAC string.
send_wol_chars(mac_address, net) ==
    LET data == wol_data(mac_address)
    IN  IF wol_data_raises(data)
        THEN [eff |-> [Eff0 EXCEPT !.wol = <<[mac |-> mac_address, outcome |-> "ValueError"]>>,
                                   !.log = <<"wol">>],
              raised |-> TRUE, exc |-> "ValueError"]
        ELSE IF net # "ok"
        THEN [eff |-> [Eff0 EXCEPT !.wol = <<[mac |-> mac_address, outcome |-> "OSError",
                                              packet |-> wol_packet(data)]>>,
                                   !.log = <<"wol">>],
              raised |-> TRUE, exc |-> "OSError"]
        ELSE [eff |-> [Eff0 EXCEPT !.wol = <<[mac |-> mac_address, outcome |-> "sent",
                                              to |-> BroadcastIp, port |-> WolPort,
                                              packet |-> wol_packet(data)]>>,
                                   !.log = <<"wol">>],
              raised |-> FALSE, exc |-> ""]

\* send_wol on the mac of a session: None has no replace().
send_wol(mac_address, net) ==
    IF mac_address.ty # "str"
    THEN [eff |-> [Eff0 EXCEPT !.wol = <<[mac |-> mac_address, outcome |-> "AttributeError"]>>,
                               !.log = <<"wol">>],
          raised |-> TRUE, exc |-> "AttributeError"]
    ELSE LET r == send_wol_chars(Chars(mac_address.s), net)
         IN  [r EXCEPT !.eff.wol = <<[r.eff.wol[1] EXCEPT !.mac = mac_address]>>]

(***************************************************************************)
(* Key commands.  power_on, power_off, volume_up, volume_down and mute     *)
(* each carry their own copy of the request and of the status handling     *)
(* (with a message for 401); send_key is the generic one.                  *)
(***************************************************************************)
\* ACTION is a reserved word of TLA+: the wire field ACTION is written ACTION_.
KeyList(codeset, code, action) ==
    [KEYLIST |-> <<[CODESET |-> codeset, CODE |-> code, ACTION_ |-> action]>>]

\* The shared shape of lines 147-166, 193-212, 231-250, 254-273, 277-296.
KeyCommandWith401(self, codeset, code, what, rs) ==
    LET m == _make_request(self, "PUT", "/key_command/", KeyList(codeset, code, "KEYPRESS"), rs)
        response == m.response
    IN  IF IsNone(response) THEN Returns(m.eff, "False")
        ELSE IF response.status_code = 200 THEN Returns(m.eff, "True")
        ELSE IF response.status_code = 401
        THEN Returns(Says(m.eff, <<"ERROR: Authentication failed. Your auth token is invalid.">>), "False")
        ELSE Returns(Says(m.eff, <<what>>), "False")

power_off(self, rs) == KeyCommandWith401(self, 11, 0, "ERROR: Power off failed with status", rs)
volume_up(self, rs) == KeyCommandWith401(self, 5, 1, "ERROR: Volume up failed with status", rs)
volume_down(self, rs) == KeyCommandWith401(self, 5, 0, "ERROR: Volume down failed with status", rs)
mute(self, rs) == KeyCommandWith401(self, 5, 4, "ERROR: Mute failed with status", rs)

\* lines 137-144: the wake packet, tried only when the session has a MAC;
\* an exception of send_wol is printed and swallowed.
power_on_wake(self, net) ==
    IF Truthy(self.mac)
    THEN LET s == send_wol(self.mac, net)
         IN  Says(s.eff,
                  <<"Sending WoL magic packet",
                    IF s.raised THEN "WoL failed, trying API command"
                                ELSE "Waiting 5 seconds for TV to wake up">>)
    ELSE Eff0

\* A power_on that gives up when the wake packet cannot be sent.
power_on_wol_fatal(self, rs, net) ==
    LET w == power_on_wake(self, net)
    IN  IF w.wol # <<>> /\ w.wol[1].outcome # "sent"
        THEN Returns(w, "False")
        ELSE Then(w, KeyCommandWith401(self, 11, 1, "ERROR: Power on failed with status", rs))

power_on(self, rs, net) ==
    Then(power_on_wake(self, net),
         KeyCommandWith401(self, 11, 1, "ERROR: Power on failed with status", rs))

send_key(self, codeset, code, action, rs) ==
    LET m == _make_request(self, "PUT", "/key_command/", KeyList(codeset, code, action), rs)
        response == m.response
    IN  IF IsNone(response) THEN Returns(m.eff, "False")
        ELSE IF response.status_code = 200 THEN Returns(m.eff, "True")
        ELSE Returns(Says(m.eff, <<"ERROR: Key command failed with status">>), "False")

\* A key table with the codes of left and right exchanged.
KeyTable_left_right_swapped ==
    [key_up |-> <<3, 8>>, key_down |-> <<3, 0>>, key_left |-> <<3, 7>>,
     key_right |-> <<3, 1>>, key_ok |-> <<3, 2>>, key_back |-> <<4, 0>>,
     key_exit |-> <<4, 1>>, key_menu |-> <<4, 8>>, key_home |-> <<4, 3>>,
     key_info |-> <<4, 6>>, channel_up |-> <<8, 1>>, channel_down |-> <<8, 0>>]

\* key_up .. channel_down: the codeset and code each wrapper passes to send_key.
KeyTable ==
    [key_up |-> <<3, 8>>, key_down |-> <<3, 0>>, key_left |-> <<3, 1>>,
     key_right |-> <<3, 7>>, key_ok |-> <<3, 2>>, key_back |-> <<4, 0>>,
     key_exit |-> <<4, 1>>, key_menu |-> <<4, 8>>, key_home |-> <<4, 3>>,
     key_info |-> <<4, 6>>, channel_up |-> <<8, 1>>, channel_down |-> <<8, 0>>]

\* A key wrapper that sends the key as two commands, down and up.
key_method_down_up(self, name, rs) ==
    LET down == send_key(self, KeyTable[name][1], KeyTable[name][2], "KEYDOWN", rs)
    IN  Then(down, send_key(self, KeyTable[name][1], KeyTable[name][2], "KEYUP",
                            Drop(rs, Len(down.sent))))

key_method(self, name, rs) == send_key(self, KeyTable[name][1], KeyTable[name][2], "KEYPRESS", rs)

(***************************************************************************)
(* Power state and toggle                                                  *)
(***************************************************************************)
\* d.get('ITEMS', [{}])[0]: the first item, or IndexError on an empty list.
FirstItemRaises(d) == "ITEMS" \in DOMAIN d /\ Len(d["ITEMS"]) = 0
FirstItem(d) == IF "ITEMS" \in DOMAIN d THEN d["ITEMS"][1] ELSE EmptyObj

\* A get_power_state that takes every non-zero VALUE for "on".
power_mode_is_on_truthy(power_mode) == Truthy(power_mode)

\* line 122: return power_mode == 1
power_mode_is_on(power_mode) == power_mode = JInt(1)

get_power_state(self, rs) ==
    LET m == _make_request(self, "GET", "/state/device/power_mode", JNull, rs)
        response == m.response
        state == response.json.obj
        power_mode == Get(FirstItem(state), "VALUE", JInt(0))
    IN  IF IsNone(response) THEN Returns(m.eff, "None")
        ELSE IF response.status_code = 200
        THEN IF ~response.json.valid THEN Raises(m.eff, "JSONDecodeError")
             ELSE IF FirstItemRaises(state) THEN Raises(m.eff, "IndexError")
             ELSE Returns(m.eff, IF power_mode_is_on(power_mode) THEN "True" ELSE "False")
        ELSE IF response.status_code = 401
        THEN Returns(Says(m.eff, <<"ERROR: Authentication failed. Your auth token may be invalid or expired.",
                                   "Try pairing again with: python vizio_control.py <tv_ip> pair">>), "None")
        ELSE Returns(Says(m.eff, <<"ERROR: Get power state failed with status">>), "None")

\* A power_toggle that falls back to power_on when the state is indeterminate.
power_toggle_unknown_power_on(self, g, rs, net) ==
    Then(Says(g, <<"ERROR: Could not determine power state">>), power_on(self, rs, net))

\* What power_toggle does when the state is indeterminate (lines 217-220).
power_toggle_unknown(self, g, rs, net) ==
    LET s == send_wol(self.mac, net)
        e == Then(Says(g, <<"ERROR: Could not determine power state">>), s.eff)
    IN  IF s.raised THEN Raises(e, s.exc) ELSE Returns(e, "False")

\* A power_toggle that sends the command of the state the TV is already in.
power_toggle_known_same(self, is_on, rs, net) ==
    IF is_on.ret = "True"
    THEN Then(Says(is_on, <<"TV is on, turning off...">>), power_on(self, rs, net))
    ELSE Then(Says(is_on, <<"TV is off, turning on...">>), power_off(self, rs))

\* What power_toggle does when the state is known (lines 222-227).
power_toggle_known(self, is_on, rs, net) ==
    IF is_on.ret = "True"
    THEN Then(Says(is_on, <<"TV is on, turning off...">>), power_off(self, rs))
    ELSE Then(Says(is_on, <<"TV is off, turning on...">>), power_on(self, rs, net))

power_toggle(self, rs, net) ==
    LET is_on == get_power_state(self, rs)
        rest == Drop(rs, Len(is_on.sent))
    IN  IF is_on.ret = "Raise" THEN is_on
        ELSE IF is_on.ret = "None" THEN power_toggle_unknown(self, is_on, rest, net)
        ELSE power_toggle_known(self, is_on, rest, net)

(***************************************************************************)
(* Inputs                                                                  *)
(***************************************************************************)
CurrentInputPath == "/menu_native/dynamic/tv_settings/devices/current_input"
NameInputPath == "/menu_native/dynamic/tv_settings/devices/name_input"

get_current_input(self, rs) ==
    LET m == _make_request(self, "GET", CurrentInputPath, JNull, rs)
        response == m.response
        result_ == response.json.obj
        v == Get(FirstItem(result_), "VALUE", JNull)
    IN  IF Ok(response) /\ response.status_code = 200
        THEN IF ~response.json.valid THEN Raises(m.eff, "JSONDecodeError")
             ELSE IF FirstItemRaises(result_) THEN Raises(m.eff, "IndexError")
             ELSE IF v = JNull THEN Returns(m.eff, "None") ELSE ReturnsValue(m.eff, v)
        ELSE Returns(m.eff, "None")

get_inputs_list(self, rs) ==
    LET m == _make_request(self, "GET", NameInputPath, JNull, rs)
        response == m.response
        result_ == response.json.obj
    IN  IF Ok(response) /\ response.status_code = 200
        THEN IF ~response.json.valid THEN Raises(m.eff, "JSONDecodeError")
             ELSE ReturnsValue(m.eff, Get(result_, "ITEMS", <<>>))
        ELSE ReturnsValue(m.eff, <<>>)

\* A set_input that keeps the hash of an earlier call instead of reading it anew.
set_input_hashval_cached(current_data) ==
    IF Truthy(prev_hashval) THEN prev_hashval
    ELSE Get(IF "ITEMS" \in DOMAIN current_data THEN current_data["ITEMS"][1] ELSE EmptyObj,
             "HASHVAL", JNull)

\* line 327: the hash of this call's GET
set_input_hashval(current_data) == Get(FirstItem(current_data), "HASHVAL", JNull)

\* line 329: "if not hashval" ends the call before the PUT
set_input_has_hash(hashval) == Truthy(hashval)

set_input(self, input_name, rs) ==
    LET g == _make_request(self, "GET", CurrentInputPath, JNull, rs)
        current_response == g.response
        current_data == current_response.json.obj
        hashval == set_input_hashval(current_data)
        data == [REQUEST |-> "MODIFY", VALUE |-> input_name, HASHVAL |-> hashval]
        p == _make_request(self, "PUT", CurrentInputPath, data, Drop(rs, 1))
        response == p.response
    IN  IF ~Ok(current_response) \/ current_response.status_code # 200
        THEN Returns(Says(g.eff, <<"ERROR: Could not get current input state">>), "False")
        ELSE IF ~current_response.json.valid THEN Raises(g.eff, "JSONDecodeError")
        ELSE IF FirstItemRaises(current_data) THEN Raises(g.eff, "IndexError")
        ELSE IF ~set_input_has_hash(hashval)
        THEN Returns(Says(g.eff, <<"ERROR: Could not get HASHVAL from current input">>), "False")
        ELSE IF IsNone(response) THEN Returns(Then(g.eff, p.eff), "False")
        ELSE IF response.status_code = 200 THEN Returns(Then(g.eff, p.eff), "True")
        ELSE IF response.status_code = 401
        THEN Returns(Says(Then(g.eff, p.eff), <<"ERROR: Authentication failed">>), "False")
        ELSE Returns(Says(Then(g.eff, p.eff), <<"ERROR: Set input failed with status">>), "False")

(***************************************************************************)
(* send_channel.  A channel string is a sequence of characters.            *)
(*   isdigit : str.isdigit() of one character; it accepts the ASCII digits *)
(*             and also digit characters such as the superscript two       *)
(*             (written "sup2"), which int() rejects with ValueError.      *)
(***************************************************************************)
DigitValue ==
    [c \in {"0", "1", "2", "3", "4", "5", "6", "7", "8", "9"} |->
        CASE c = "0" -> 0 [] c = "1" -> 1 [] c = "2" -> 2 [] c = "3" -> 3
          [] c = "4" -> 4 [] c = "5" -> 5 [] c = "6" -> 6 [] c = "7" -> 7
          [] c = "8" -> 8 [] OTHER -> 9]

isdigit(c) == c \in DOMAIN DigitValue \/ c = "sup2"
int_raises(c) == c \notin DOMAIN DigitValue
int(c) == DigitValue[c]

\* A digit sent as its value instead of its ASCII code.
channel_digit_code_raw(digit) == int(digit)

\* line 441: the key code of a digit
channel_digit_code(digit) == 48 + int(digit)

\* A send_channel that ignores the result of send_key.
send_channel_never_abort(k) == FALSE

\* line 442: "if not self.send_key(0, code): return False"
send_channel_abort(k) == k.ret # "True"

RECURSIVE send_channel_from(_, _, _, _, _)
send_channel_from(self, channel_number, i, rs, acc) ==
    IF i > Len(channel_number) THEN Returns(acc, "True")
    ELSE LET digit == channel_number[i]
         IN  IF ~isdigit(digit)
             THEN Returns(Says(acc, <<"ERROR: Invalid channel number">>), "False")
             ELSE IF int_raises(digit) THEN Raises(acc, "ValueError")
             ELSE LET k == send_key(self, 0, channel_digit_code(digit), "KEYPRESS",
                                    Drop(rs, Len(acc.sent)))
                  IN  IF send_channel_abort(k) THEN Returns(Then(acc, k), "False")
                      ELSE send_channel_from(self, channel_number, i + 1, rs, Then(acc, k))

send_channel(self, channel_number, rs) == send_channel_from(self, channel_number, 1, rs, Eff0)

(***************************************************************************)
(* Apps                                                                    *)
(***************************************************************************)
get_current_app_settings(self, rs) ==
    LET m == _make_request(self, "GET", "/app/current", JNull, rs)
        response == m.response
        data == Get(Get(response.json.obj, "ITEM", EmptyObj), "VALUE", EmptyObj)
    IN  IF Ok(response) /\ response.status_code = 200
        THEN IF ~response.json.valid THEN Raises(m.eff, "JSONDecodeError")
             ELSE ReturnsValue(Says(m.eff, <<"Captured Local Settings:">>), data)
        ELSE Returns(m.eff, "None")

\* The catalog of launch_app (lines 468-478).
apps ==
    [n \in {"netflix", "youtube", "acorn tv", "watchfree", "tubi", "free movies",
            "xumo", "action", "the archive"} |->
       CASE n = "netflix" -> [name_space |-> 3, app_id |-> "1", message |-> JNull]
         [] n = "youtube" -> [name_space |-> 5, app_id |-> "1", message |-> JNull]
         [] n = "acorn tv" -> [name_space |-> 4, app_id |-> "74",
                               message |-> JStr("https://app.rlje.net/vizio/index.html")]
         [] n = "watchfree" -> [name_space |-> 4, app_id |-> "3014",
                                message |-> JStr("http://127.0.0.1:12345/scfs/sctv/main.html#/watchfreeplus")]
         [] n = "tubi" -> [name_space |-> 4, app_id |-> "61",
                           message |-> JStr("https://ott-vizio.tubitv.com/?utm_source=AppRow&tracking=AppRow")]
         [] n = "free movies" -> [name_space |-> 4, app_id |-> "331",
                                  message |-> JStr("https://fmplus.unreel.me/tv/vizio")]
         [] n = "xumo" -> [name_space |-> 4, app_id |-> "62",
                           message |-> JStr("https://xfinity-kabletown-app.xumo.com/prod/index.html?partner=smartcast")]
         [] n = "action" -> [name_space |-> 4, app_id |-> "298",
                             message |-> JStr("https://vizio-prod.ottstudio.plus/vizio-apps/action")]
         [] OTHER -> [name_space |-> 4, app_id |-> "577",
                      message |-> JStr("https://blueprint.matchpoint.tv/thearchive/")]]

\* str.lower() on the app names of the model.
lower(app_name) ==
    CASE app_name \in {"Netflix", "NETFLIX", "netflix"} -> "netflix"
      [] app_name \in {"Tubi", "TUBI", "tubi"} -> "tubi"
      [] app_name \in {"Hulu", "hulu"} -> "hulu"
      [] OTHER -> app_name

\* A launch_app that passes the catalog message through as it is.
launch_app_message_raw(message) == message.s

\* line 496: str(app_data["message"]) if app_data["message"] else "None"
launch_app_message(message) == IF Truthy(message) THEN message.s ELSE "None"

launch_app(self, app_name, rs) ==
    LET c == get_current_app_settings(self, rs)
        app_lower == lower(app_name)
        app_data == apps[app_lower]
        data == [VALUE |-> [APP_ID |-> app_data.app_id,
                            NAME_SPACE |-> app_data.name_space,
                            MESSAGE |-> launch_app_message(app_data.message)]]
        m == _make_request(self, "PUT", "/app/launch", data, Drop(rs, Len(c.sent)))
        response == m.response
        e == Then(c, m.eff)
    IN  IF c.ret = "Raise" THEN c
        ELSE IF app_lower \notin DOMAIN apps
        THEN Returns(Says(c, <<"ERROR: Unknown app">>), "False")
        ELSE IF Ok(response) /\ response.status_code = 200 THEN Returns(e, "True")
        ELSE Returns(Says(e, <<"ERROR: Failed with status">>), "False")

list_available_apps ==
    <<"Netflix", "YouTube", "Acorn TV", "WatchFree", "Tubi", "Free Movies",
      "XUMO", "Action", "The Archive">>

(***************************************************************************)
(* The config file and the pairing procedure of the command line.          *)
(***************************************************************************)
\* What "arp -a <ip>" prints, as characters: nothing about the address, or
\* its entry.
ArpNoEntry == <<"a", "r", "p", ":", " ", "n", "o", " ", "m", "a", "t", "c", "h", " ", "f", "o", "u", "n", "d">>
ArpEntry ==
    <<"?", " ", "(", "1", "9", "2", ".", "1", "6", "8", ".", "4", ".", "3", "1", ")", " ", "a", "t", " ">>
    \o <<"a", "a", ":", "b", "b", ":", "c", "c", ":", "d", "d", ":", "e", "e", ":", "f", "f", " ", "[", "e", "t", "h", "e", "r", "]">>

\* The string of a MAC text (the inverse of Chars).
Text(text) ==
    CASE text = Chars("aa:bb:cc:dd:ee:ff") -> "aa:bb:cc:dd:ee:ff"
      [] text = Chars("AA:BB:CC:DD:EE:FF") -> "AA:BB:CC:DD:EE:FF"
      [] OTHER -> "?"

\* A pattern that knows the colon only.
mac_pattern_sep_colon_only(c) == c = ":"

\* [:-] of mac_pattern (line 549)
mac_pattern_sep(c) == c \in {":", "-"}

\* mac_pattern matches the 17 characters that start at p: five times two
\* hexadecimal digits and a separator, then two hexadecimal digits.
mac_pattern_at(output, p) ==
    /\ p + 16 <= Len(output)
    /\ \A k \in 0..16 :
          IF k % 3 = 2 THEN mac_pattern_sep(output[p + k]) ELSE IsHex(output[p + k])

\* re.search(mac_pattern, output): the leftmost match, or None.
mac_pattern_search(output) ==
    LET starts == {p \in 1..Len(output) : mac_pattern_at(output, p)}
        first == CHOOSE p \in starts : \A q \in starts : p <= q
    IN  IF starts = {} THEN [found |-> FALSE, text |-> <<>>]
        ELSE [found |-> TRUE, text |-> SubSeq(output, first, first + 16)]

\* The result is match.group(0), or None when nothing matched.
get_mac_from_ip(ip_address, arp) == mac_pattern_search(arp)

\* The MAC found, as the value do_pairing prints and saves.
Str(match) == IF match.found THEN JStr(Text(match.text)) ELSE JNull

\* fs is what open(config_path, 'w') does: "ok", or "OSError".  The failure
\* is printed and answered with False; nothing is written.
save_config(ip, auth_token, tv_mac, fs) ==
    LET config_ == [ip |-> JStr(ip), auth_token |-> auth_token, mac |-> tv_mac]
    IN  IF fs = "ok"
        THEN Returns([Eff0 EXCEPT !.saved = <<config_>>, !.log = <<"save">>,
                                  !.out = <<"Configuration saved">>], "True")
        ELSE Returns(Says(Eff0, <<"ERROR: Could not save config">>), "False")

\* A do_pairing that tests the connection with the session it paired with.
do_pairing_test_tv_unpaired(tv_ip, auth_token) == VizioTV(tv_ip, JNull, JNull)

\* line 683: test_tv = VizioTV(tv_ip, auth_token)
do_pairing_test_tv(tv_ip, auth_token) == VizioTV(tv_ip, auth_token, JNull)

\* A do_pairing that goes on to save and test whatever pair_finish returned.
do_pairing_has_token_always(f) == TRUE

\* line 673: "if auth_token:"
do_pairing_has_token(f) == f.ret = "Value" /\ Truthy(f.val)

\* pin is what the user types at the prompt of line 670.
do_pairing(tv_ip, pin, arp, fs, rs) ==
    LET tv_ == VizioTV(tv_ip, JNull, JNull)
        s == pair_start(tv_, "PythonRemote", rs)
        pairing_token == s.val
        f == pair_finish(tv_, pairing_token, pin, Drop(rs, Len(s.sent)))
        auth_token == f.val
        tv_mac == get_mac_from_ip(tv_ip, arp)
        w == save_config(tv_ip, auth_token, Str(tv_mac), fs)
        test_tv == do_pairing_test_tv(tv_ip, auth_token)
        power_state == get_power_state(test_tv, Drop(rs, Len(s.sent) + Len(f.sent)))
        started == Says(s, <<"Enter the 4-digit PIN shown on your TV: ">>)
        saved == Then(Then(started, f), w)
        tested == Then(Says(saved, <<"Testing connection...">>), power_state)
    IN  IF s.ret = "Raise" THEN s
        ELSE IF s.ret # "Value" THEN Returns(Says(s, <<"Pairing failed. Make sure:">>), "False")
        ELSE IF f.ret = "Raise" THEN Then(started, f)
        ELSE IF ~do_pairing_has_token(f)
        THEN Returns(Says(Then(started, f), <<"Pairing failed.">>), "False")
        ELSE IF power_state.ret = "Raise" THEN tested
        ELSE IF power_state.ret # "None"
        THEN Returns(Says(tested, <<"Connection successful!">>), "True")
        ELSE Returns(Says(tested, <<"WARNING: Pairing succeeded but couldn't verify connection">>),
                     "False")

(***************************************************************************)
(* The inputs of the model: the sessions, the arguments and the answers    *)
(* of the device that are tried.                                           *)
(***************************************************************************)
TvIp == "192.168.4.31"
AuthTokens == {JNull, JStr(""), JStr("Zabc123")}
Macs == {JNull, JStr("AA:BB:CC:DD:EE:FF")}
Nets == {"ok", "OSError"}

Failures == {TransportError(k) : k \in TransportErrors}

\* Answers to a key command, a PUT of an input or an app launch: only the
\* status is read.
KeyResponses == {Response(s, Body(EmptyObj), FALSE) : s \in StatusCodes} \cup Failures

PairingReqTokens == {JInt(0), JInt(1234), JStr("1234"), JStr("abc")}
DeviceNames == {"PythonRemote", "Kitchen"}
Pins == {"1234"}

PairStartResponses ==
    {Response(200, b, FALSE) :
        b \in {NotJson, Body(EmptyObj), Body([ITEM |-> EmptyObj])}
              \cup {Body([ITEM |-> [PAIRING_REQ_TOKEN |-> v]]) : v \in PairingReqTokens}}
    \cup {Response(s, b, FALSE) :
            s \in StatusCodes \ {200},
            b \in {NotJson, Body([ITEM |-> [PAIRING_REQ_TOKEN |-> JInt(1234)]])}}
    \cup Failures

\* The text of an answer that carries an AUTH_TOKEN is not taken to contain
\* "INVALID"; any other answer may or may not contain it.
PairFinishResponses ==
    {Response(200, Body([ITEM |-> [AUTH_TOKEN |-> v]]), FALSE) : v \in {JStr(""), JStr("Zabc123")}}
    \cup {Response(200, b, inv) :
            b \in {NotJson, Body(EmptyObj), Body([ITEM |-> EmptyObj])}, inv \in BOOLEAN}
    \cup {Response(s, Body(EmptyObj), inv) : s \in StatusCodes \ {200}, inv \in BOOLEAN}
    \cup {Response(s, Body([ITEM |-> [AUTH_TOKEN |-> JStr("Zabc123")]]), FALSE) :
            s \in StatusCodes \ {200}}
    \cup Failures

ArpOutputs == {ArpNoEntry, ArpEntry}
FileSystems == {"ok", "OSError"}

PowerResponses ==
    {Response(200, b, FALSE) :
        b \in {NotJson, Body(EmptyObj), Body([ITEMS |-> <<>>]), Body([ITEMS |-> <<EmptyObj>>])}
              \cup {Body([ITEMS |-> <<[VALUE |-> JInt(v)]>>]) : v \in {0, 1, 2}}}
    \cup {Response(s, Body(EmptyObj), FALSE) : s \in StatusCodes \ {200}}
    \cup Failures

HashVals == {JInt(0), JInt(11), JInt(22)}
InputNames == {"HDMI-1", "CAST"}

CurrentInputResponses ==
    {Response(200, b, FALSE) :
        b \in {NotJson, Body(EmptyObj), Body([ITEMS |-> <<>>]), Body([ITEMS |-> <<EmptyObj>>])}
              \cup {Body([ITEMS |-> <<[VALUE |-> JStr("HDMI-1"), HASHVAL |-> h]>>]) : h \in HashVals}}
    \cup {Response(s, Body(EmptyObj), FALSE) : s \in StatusCodes \ {200}}
    \cup Failures

InputsListResponses ==
    {Response(200, b, FALSE) :
        b \in {NotJson, Body(EmptyObj),
               Body([ITEMS |-> <<[CNAME |-> "hdmi1", VALUE |-> JStr("HDMI-1")]>>])}}
    \cup {Response(s, Body(EmptyObj), FALSE) : s \in StatusCodes \ {200}}
    \cup Failures

AppCurrentResponses ==
    {Response(200, b, FALSE) :
        b \in {NotJson, Body(EmptyObj),
               Body([ITEM |-> [VALUE |-> [APP_ID |-> "1", NAME_SPACE |-> 3, MESSAGE |-> "None"]]])}}
    \cup {Response(s, Body(EmptyObj), FALSE) : s \in StatusCodes \ {200}}
    \cup Failures

AppNames == {"Netflix", "netflix", "NETFLIX", "Tubi", "Hulu"}

ChannelChars == {"0", "1", "5", "a", "sup2"}
ChannelStrings == SeqsUpTo(ChannelChars, MaxChannelLen)

\* For send_channel the three kinds of answer a key command can get.
ChannelResponses ==
    {Response(200, Body(EmptyObj), FALSE), Response(401, Body(EmptyObj), FALSE),
     TransportError("ConnectionError")}

KeyMethods == DOMAIN KeyTable
SimpleKeyMethods == {"power_off", "volume_up", "volume_down", "mute"}

simple_key_method(self, name, rs) ==
    CASE name = "power_off" -> power_off(self, rs)
      [] name = "volume_up" -> volume_up(self, rs)
      [] name = "volume_down" -> volume_down(self, rs)
      [] OTHER -> mute(self, rs)

(***************************************************************************)
(* The state machine.                                                      *)
(***************************************************************************)
NoCall == [op |-> "none", args |-> <<>>]

\* The command line and the GUI run no server thread.
NoThreads == <<>>

Init ==
    /\ tv \in {VizioTV(TvIp, t, m) : t \in AuthTokens, m \in Macs}
    /\ pc = "idle"
    /\ call = NoCall
    /\ rcvd = <<>>
    /\ sent = <<>>
    /\ wol = <<>>
    /\ out = <<>>
    /\ result = [ret |-> "None", val |-> JNull, exc |-> ""]
    /\ prev_hashval = JNull
    /\ log = <<>>
    /\ config = EmptyObj
    /\ web = NoThreads

\* A call of c that got the answers rs and had the effect e.  The answers
\* drawn are exactly those the call consumed, one per request sent.
Do(c, rs, e) ==
    /\ Len(e.sent) = Len(rs)
    /\ pc' = "done"
    /\ call' = c
    /\ rcvd' = rs
    /\ sent' = e.sent
    /\ wol' = e.wol
    /\ out' = e.out
    /\ result' = [ret |-> e.ret, val |-> e.val, exc |-> e.exc]
    /\ log' = e.log
    /\ config' = IF e.saved # <<>> THEN e.saved[Len(e.saved)] ELSE config
    /\ tv' = setattrs(tv, e.assigned)
    /\ UNCHANGED <<prev_hashval, web>>

PairStart ==
    /\ pc = "idle"
    /\ \E device_name \in DeviceNames, rs \in SeqsUpTo(PairStartResponses, 1) :
        Do([op |-> "pair_start", args |-> <<device_name>>], rs,
           pair_start(tv, device_name, rs))

PairFinish ==
    /\ pc = "idle"
    /\ \E pairing_token \in PairingReqTokens \ {JInt(0)}, pin \in Pins,
       rs \in SeqsUpTo(PairFinishResponses, 1) :
        Do([op |-> "pair_finish", args |-> <<pairing_token, pin>>], rs,
           pair_finish(tv, pairing_token, pin, rs))

\* The caller that holds the token pair_start has just returned passes it
\* on to pair_finish on the same session.
PairFinishStarted ==
    /\ pc = "done"
    /\ call.op = "pair_start"
    /\ result.ret = "Value"
    /\ \E pin \in Pins, rs \in SeqsUpTo(PairFinishResponses, 1) :
        Do([op |-> "pair_finish", args |-> <<result.val, pin>>], rs,
           pair_finish(tv, result.val, pin, rs))

GetPowerState ==
    /\ pc = "idle"
    /\ \E rs \in SeqsUpTo(PowerResponses, 1) :
        Do([op |-> "get_power_state", args |-> <<>>], rs, get_power_state(tv, rs))

PowerOn ==
    /\ pc = "idle"
    /\ \E rs \in SeqsUpTo(KeyResponses, 1), net \in Nets :
        Do([op |-> "power_on", args |-> <<>>], rs, power_on(tv, rs, net))

SimpleKey ==
    /\ pc = "idle"
    /\ \E name \in SimpleKeyMethods, rs \in SeqsUpTo(KeyResponses, 1) :
        Do([op |-> name, args |-> <<>>], rs, simple_key_method(tv, name, rs))

PowerToggle ==
    /\ pc = "idle"
    /\ \E rs \in SeqsUpTo(PowerResponses \cup KeyResponses, 2), net \in Nets :
        Do([op |-> "power_toggle", args |-> <<>>], rs, power_toggle(tv, rs, net))

GetCurrentInput ==
    /\ pc = "idle"
    /\ \E rs \in SeqsUpTo(CurrentInputResponses, 1) :
        Do([op |-> "get_current_input", args |-> <<>>], rs, get_current_input(tv, rs))

GetInputsList ==
    /\ pc = "idle"
    /\ \E rs \in SeqsUpTo(InputsListResponses, 1) :
        Do([op |-> "get_inputs_list", args |-> <<>>], rs, get_inputs_list(tv, rs))

SetInput ==
    /\ pc = "idle"
    /\ \E input_name \in InputNames, rs \in SeqsUpTo(CurrentInputResponses \cup KeyResponses, 2) :
        Do([op |-> "set_input", args |-> <<input_name>>], rs, set_input(tv, input_name, rs))

Key ==
    /\ pc = "idle"
    /\ \E name \in KeyMethods, rs \in SeqsUpTo(KeyResponses, 1) :
        Do([op |-> name, args |-> <<>>], rs, key_method(tv, name, rs))

SendChannel ==
    /\ pc = "idle"
    /\ \E channel_number \in ChannelStrings :
        \E rs \in SeqsUpTo(ChannelResponses, Len(channel_number)) :
            Do([op |-> "send_channel", args |-> <<channel_number>>], rs,
               send_channel(tv, channel_number, rs))

GetCurrentAppSettings ==
    /\ pc = "idle"
    /\ \E rs \in SeqsUpTo(AppCurrentResponses, 1) :
        Do([op |-> "get_current_app_settings", args |-> <<>>], rs,
           get_current_app_settings(tv, rs))

LaunchApp ==
    /\ pc = "idle"
    /\ \E app_name \in AppNames, rs \in SeqsUpTo(AppCurrentResponses \cup KeyResponses, 2) :
        Do([op |-> "launch_app", args |-> <<app_name>>], rs, launch_app(tv, app_name, rs))

\* The answers to the three requests of do_pairing: /pairing/start,
\* /pairing/pair and the power state read that tests the new token.
DoPairingAnswers ==
    SeqsUpTo(PairStartResponses, 1)
    \cup {<<a, b>> : a \in PairStartResponses, b \in PairFinishResponses}
    \cup {<<a, b, c>> : a \in PairStartResponses, b \in PairFinishResponses, c \in PowerResponses}

DoPairing ==
    /\ pc = "idle"
    /\ \E pin \in Pins, arp \in ArpOutputs, fs \in FileSystems, rs \in DoPairingAnswers :
        Do([op |-> "do_pairing", args |-> <<TvIp>>], rs, do_pairing(TvIp, pin, arp, fs, rs))

\* The hash a finished set_input call read from its GET (None if it read none).
HashRead ==
    IF call.op = "set_input" /\ Len(rcvd) >= 1 /\ Ok(rcvd[1]) /\ rcvd[1].status_code = 200
       /\ rcvd[1].json.valid /\ ~FirstItemRaises(rcvd[1].json.obj)
    THEN Get(FirstItem(rcvd[1].json.obj), "HASHVAL", JNull)
    ELSE JNull

\* The caller takes the result; the session is ready for the next call.
Return ==
    /\ pc = "done"
    /\ pc' = "idle"
    /\ call' = NoCall
    /\ rcvd' = <<>>
    /\ sent' = <<>>
    /\ wol' = <<>>
    /\ out' = <<>>
    /\ result' = [ret |-> "None", val |-> JNull, exc |-> ""]
    /\ prev_hashval' = IF Truthy(HashRead) THEN HashRead ELSE prev_hashval
    /\ log' = <<>>
    /\ UNCHANGED <<tv, config, web>>

Next ==
    \/ PairStart
    \/ PairFinish
    \/ PairFinishStarted
    \/ GetPowerState
    \/ PowerOn
    \/ SimpleKey
    \/ PowerToggle
    \/ GetCurrentInput
    \/ GetInputsList
    \/ SetInput
    \/ Key
    \/ SendChannel
    \/ GetCurrentAppSettings
    \/ LaunchApp
    \/ DoPairing
    \/ Return

Spec == Init /\ [][Next]_vars

(***************************************************************************)
(* send_wol and get_mac_from_ip on their own: the two functions that take  *)
(* text apart, applied to MAC strings in every notation and to arp         *)
(* outputs put together from fragments.                                    *)
(***************************************************************************)
MaxArpFragments == 3    \* most fragments an arp output is put together from

\* The bytes the MAC addresses tried are made of.
ByteSamples == {10, 177, 255}

HexDigitsLower ==
    <<"0", "1", "2", "3", "4", "5", "6", "7", "8", "9", "a", "b", "c", "d", "e", "f">>
HexDigitsUpper ==
    <<"0", "1", "2", "3", "4", "5", "6", "7", "8", "9", "A", "B", "C", "D", "E", "F">>

\* The notation of a MAC address: two hexadecimal digits per byte, in upper
\* or lower case, the bytes joined by the separator.
RECURSIVE mac_text(_, _, _)
mac_text(bytes, sep, upper) ==
    LET digits == IF upper THEN HexDigitsUpper ELSE HexDigitsLower
        group == <<digits[(bytes[1] \div 16) + 1], digits[(bytes[1] % 16) + 1]>>
    IN  IF Len(bytes) = 1 THEN group
        ELSE group \o <<sep>> \o mac_text(Tail(bytes), sep, upper)

WolMacs ==
    {[bytes |-> b, sep |-> x, upper |-> u] :
        b \in [1..6 -> ByteSamples], x \in {":", "-"}, u \in BOOLEAN}

\* Pieces of arp output: text around an entry, MAC addresses in both
\* notations, and near misses (five groups only; a group that is not
\* hexadecimal).
ArpFragments ==
    {<<"?", " ", "(", "1", "9", "2", ".", "1", "6", "8", ".", "4", ".", "3", "1", ")", " ", "a", "t", " ">>,
     <<"a", "a", ":", "b", "b", ":", "c", "c", ":", "d", "d", ":", "e", "e", ":", "f", "f">>,
     <<"0", "A", "-", "B", "1", "-", "F", "F", "-", "0", "0", "-", "1", "c", "-", "9", "D">>,
     <<" ", "<", "i", "n", "c", "o", "m", "p", "l", "e", "t", "e", ">", " ">>,
     <<"a", "a", ":", "b", "b", ":", "c", "c", ":", "d", "d", ":", "e", "e">>,
     <<"g", "0", ":", "1", "1", ":", "2", "2", ":", "3", "3", ":", "4", "4", ":", "5", "5">>}

RECURSIVE Concat(_)
Concat(texts) == IF texts = <<>> THEN <<>> ELSE texts[1] \o Concat(Tail(texts))

ArpTexts == {Concat(f) : f \in SeqsUpTo(ArpFragments, MaxArpFragments)}

InitPure ==
    /\ Init
    /\ tv = VizioTV(TvIp, JNull, JNull)

SendWol ==
    /\ pc = "idle"
    /\ \E m \in WolMacs, net \in Nets :
        LET r == send_wol_chars(mac_text(m.bytes, m.sep, m.upper), net)
        IN  Do([op |-> "send_wol", args |-> <<m.bytes, m.sep, m.upper>>], <<>>,
               IF r.raised THEN Raises(r.eff, r.exc) ELSE Returns(r.eff, "None"))

GetMacFromIp ==
    /\ pc = "idle"
    /\ \E arp \in ArpTexts :
        LET m == get_mac_from_ip(TvIp, arp)
        IN  Do([op |-> "get_mac_from_ip", args |-> <<TvIp, arp>>], <<>>,
               IF m.found THEN ReturnsValue(Eff0, m.text) ELSE Returns(Eff0, "None"))

NextPure ==
    \/ SendWol
    \/ GetMacFromIp
    \/ Return

SpecPure == InitPure /\ [][NextPure]_vars

(***************************************************************************)
(* The web front end (src/vizio_flask.py).  One VizioTV object is built    *)
(* at import from the saved config and used by every view; app.run serves  *)
(* each HTTP request in a thread of its own.  A thread that runs a view    *)
(* is followed exchange by exchange: rs holds the answers its call has     *)
(* received so far, and the call is waiting for the answer to request      *)
(* number Len(rs) + 1 as long as it has sent more requests than it got     *)
(* answers.                                                                *)
(***************************************************************************)
Threads == {"t1", "t2"}

\* execute_command: the method each command runs (lines 29-64).
FlaskCommandMethod ==
    [toggle |-> "power_toggle", on |-> "power_on", off |-> "power_off",
     vol_up |-> "volume_up", vol_down |-> "volume_down", mute |-> "mute",
     ch_up |-> "channel_up", ch_down |-> "channel_down",
     up |-> "key_up", down |-> "key_down", left |-> "key_left", right |-> "key_right",
     ok |-> "key_ok", back |-> "key_back", exit |-> "key_exit", menu |-> "key_menu",
     home |-> "key_home", info |-> "key_info"]

FlaskCommands == DOMAIN FlaskCommandMethod \cup {"bogus"}

\* The HTTP requests the server is sent: the route and its path argument.
FlaskRequests ==
    {[route |-> "command", arg |-> c] : c \in FlaskCommands}
    \cup {[route |-> "input", arg |-> n] : n \in InputNames}
    \cup {[route |-> "app", arg |-> a] : a \in AppNames}
    \cup {[route |-> "inputs", arg |-> ""], [route |-> "apps", arg |-> ""]}

NoReply == [success |-> FALSE, message |-> ""]

\* A thread that handles no request.
NoRequest ==
    [route |-> "none", arg |-> "", net |-> "ok", rs |-> <<>>, phase |-> "idle",
     reply |-> NoReply]

\* tv.<method>() on the shared object.
tv_method(self, method, rs, net) ==
    CASE method = "power_toggle" -> power_toggle(self, rs, net)
      [] method = "power_on" -> power_on(self, rs, net)
      [] method \in SimpleKeyMethods -> simple_key_method(self, method, rs)
      [] OTHER -> key_method(self, method, rs)

\* The call a view makes, run on the answers h.rs.
view_effect(h) ==
    CASE h.route = "command" ->
            IF h.arg \in DOMAIN FlaskCommandMethod
            THEN tv_method(tv, FlaskCommandMethod[h.arg], h.rs, h.net)
            ELSE Eff0
      [] h.route = "input" -> set_input(tv, h.arg, h.rs)
      [] h.route = "app" -> launch_app(tv, h.arg, h.rs)
      [] h.route = "inputs" -> get_inputs_list(tv, h.rs)
      [] OTHER -> Eff0

\* The JSON a view answers with: an exception of the call is caught and
\* reported, a falsy result is a failure.
view_reply(h, e) ==
    IF e.ret = "Raise" THEN [success |-> FALSE, message |-> e.exc]
    ELSE CASE h.route = "command" ->
                 IF h.arg \notin DOMAIN FlaskCommandMethod
                 THEN [success |-> FALSE, message |-> "Unknown command"]
                 ELSE IF e.ret = "True" THEN [success |-> TRUE, message |-> "command"]
                 ELSE [success |-> FALSE, message |-> "Failed"]
           [] h.route = "input" ->
                 IF e.ret = "True" THEN [success |-> TRUE, message |-> "Input"]
                 ELSE [success |-> FALSE, message |-> "Failed to change input"]
           [] h.route = "app" ->
                 IF e.ret = "True" THEN [success |-> TRUE, message |-> "Launched"]
                 ELSE [success |-> FALSE, message |-> "Failed to launch"]
           [] h.route = "inputs" ->
                 IF e.val # <<>> THEN [success |-> TRUE, message |-> "inputs"]
                 ELSE [success |-> FALSE, message |-> "No inputs found"]
           [] OTHER -> [success |-> TRUE, message |-> "apps"]

\* The view runs on until its call waits for an answer or has returned.
Advance(h) ==
    LET e == view_effect(h)
    IN  IF Len(e.sent) > Len(h.rs)
        THEN [h EXCEPT !.phase = "running"]
        ELSE [h EXCEPT !.phase = "replying", !.rs = <<>>, !.net = "ok",
                       !.reply = view_reply(h, e)]

\* The request a running view is waiting on, and the answers it can get.
InFlightRequest(h) == view_effect(h).sent[Len(h.rs) + 1]

AnswersTo(q) ==
    CASE q.endpoint = "/state/device/power_mode" -> PowerResponses
      [] q.endpoint = CurrentInputPath /\ q.method = "GET" -> CurrentInputResponses
      [] q.endpoint = NameInputPath -> InputsListResponses
      [] q.endpoint = "/app/current" -> AppCurrentResponses
      [] OTHER -> KeyResponses

\* The configs the server starts with: it exits unless ip and auth_token
\* are set (lines 14-17).
PairedConfigs ==
    {[ip |-> JStr(TvIp), auth_token |-> JStr("Zabc123"), mac |-> Str(get_mac_from_ip(TvIp, arp))] :
        arp \in ArpOutputs}

InitFlask ==
    /\ config \in PairedConfigs
    /\ tv = VizioTV(config["ip"].s, config["auth_token"], Get(config, "mac", JNull))
    /\ web = [t \in Threads |-> NoRequest]
    /\ pc = "idle"
    /\ call = NoCall
    /\ rcvd = <<>>
    /\ sent = <<>>
    /\ wol = <<>>
    /\ out = <<>>
    /\ result = [ret |-> "None", val |-> JNull, exc |-> ""]
    /\ prev_hashval = JNull
    /\ log = <<>>

\* A thread takes an HTTP request and runs its view up to the first exchange.
FlaskAccept ==
    \E t \in Threads :
        /\ web[t].phase = "idle"
        /\ \E q \in FlaskRequests :
             \E net \in (IF q.route = "command" /\ q.arg \in {"toggle", "on"}
                         THEN Nets ELSE {"ok"}) :
                web' = [web EXCEPT ![t] =
                          Advance([route |-> q.route, arg |-> q.arg, net |-> net, rs |-> <<>>,
                                   phase |-> "idle", reply |-> NoReply])]
        /\ UNCHANGED <<tv, pc, call, rcvd, sent, wol, out, result, prev_hashval, log, config>>

\* The device answers the request a thread is waiting on (or the exchange
\* fails); the view runs on.
FlaskReceive ==
    \E t \in Threads :
        /\ web[t].phase = "running"
        /\ \E a \in AnswersTo(InFlightRequest(web[t])) :
              web' = [web EXCEPT ![t] = Advance([web[t] EXCEPT !.rs = Append(@, a)])]
        /\ UNCHANGED <<tv, pc, call, rcvd, sent, wol, out, result, prev_hashval, log, config>>

\* The view's JSON goes back to the HTTP client; the thread ends.
FlaskReply ==
    \E t \in Threads :
        /\ web[t].phase = "replying"
        /\ web' = [web EXCEPT ![t] = NoRequest]
        /\ UNCHANGED <<tv, pc, call, rcvd, sent, wol, out, result, prev_hashval, log, config>>

NextFlask ==
    \/ FlaskAccept
    \/ FlaskReceive
    \/ FlaskReply

SpecFlask == InitFlask /\ [][NextFlask]_vars

(***************************************************************************)
(* The command line (main).  One run of the program is one step: it reads  *)
(* the config file, takes the command line apart, pairs when it has to,    *)
(* builds the session, runs the command and exits.  Between runs only the  *)
(* config file remains.                                                    *)
(***************************************************************************)
Prog == "vizio_control.py"
OtherIp == "10.0.0.7"

\* sys.argv[i]
argv_at(argv, i) == argv[i + 1]

\* '.' in first_arg, for the words tried.
contains_dot(word) == word \in {TvIp, OtherIp}

\* The characters of the words that reach send_channel.
ArgChars(word) ==
    CASE word = "5" -> <<"5">>
      [] word = "105" -> <<"1", "0", "5">>
      [] word = "ch" -> <<"c", "h">>
      [] OTHER -> <<"a">>

Exit(e, code) == [e EXCEPT !.ret = "Exit", !.val = JInt(code), !.exc = ""]

\* "sys.exit(0 if success else 1)" after a method that answers True or
\* not, with the line printed on success.
exit_success(e, line) ==
    IF e.ret = "Raise" THEN e
    ELSE IF e.ret = "True" THEN Exit(Says(e, <<line>>), 0)
    ELSE Exit(e, 1)

show_help == Says(Eff0, <<"Usage: python vizio_control.py <tv_ip> <command> [args]">>)

\* lines 745-777 and 814-884: the commands that call one method without
\* arguments, and the line each prints on success.
MainCommandMethod ==
    [off |-> <<"power_off", "TV turned off">>,
     vol_up |-> <<"volume_up", "Volume up">>, vol_down |-> <<"volume_down", "Volume down">>,
     mute |-> <<"mute", "Mute toggled">>,
     up |-> <<"key_up", "Up">>, down |-> <<"key_down", "Down">>,
     left |-> <<"key_left", "Left">>, right |-> <<"key_right", "Right">>,
     ok |-> <<"key_ok", "OK">>, back |-> <<"key_back", "Back">>,
     exit |-> <<"key_exit", "Exit">>, menu |-> <<"key_menu", "Menu">>,
     home |-> <<"key_home", "Home">>, info |-> <<"key_info", "Info">>,
     ch_up |-> <<"channel_up", "Channel up">>, ch_down |-> <<"channel_down", "Channel down">>]

\* lines 779-786
main_status(tv_, rs) ==
    LET is_on == get_power_state(tv_, rs)
        said == Says(is_on, <<IF is_on.ret = "True" THEN "TV is ON" ELSE "TV is OFF">>)
        current_input == get_current_input(tv_, Drop(rs, Len(is_on.sent)))
        after == Then(said, current_input)
    IN  IF is_on.ret = "Raise" THEN is_on
        ELSE IF is_on.ret = "None" THEN Exit(is_on, 1)
        ELSE IF current_input.ret = "Raise" THEN after
        ELSE IF current_input.ret = "Value" /\ Truthy(current_input.val)
        THEN Exit(Says(after, <<"Current input">>), 0)
        ELSE Exit(after, 0)

\* lines 788-798
main_inputs(tv_, rs) ==
    LET inputs == get_inputs_list(tv_, rs)
    IN  IF inputs.ret = "Raise" THEN inputs
        ELSE IF inputs.val # <<>> THEN Exit(Says(inputs, <<"Available inputs:">>), 0)
        ELSE Exit(Says(inputs, <<"ERROR: Could not get inputs list">>), 1)

\* line 893: channel = sys.argv[2]
main_ch_word(argv, ip_form) == 2

\* lines 886-897
main_ch(tv_, argv, ip_form, rs) ==
    LET channel == argv_at(argv, main_ch_word(argv, ip_form))
    IN  IF Len(argv) < 3
        THEN Exit(Says(Eff0, <<"ERROR: Channel number required">>), 1)
        ELSE exit_success(send_channel(tv_, ArgChars(channel), rs), "Changed to channel")

\* line 807: input_name = sys.argv[3]
main_input(tv_, argv, rs) ==
    IF Len(argv) < 4
    THEN Exit(Says(Eff0, <<"ERROR: Input name required">>), 1)
    ELSE exit_success(set_input(tv_, argv_at(argv, 3), rs), "Changed to input")

\* lines 908-919
main_app(tv_, argv, rs) ==
    IF Len(argv) < 4
    THEN Exit(Says(Eff0, <<"ERROR: App name required">>), 1)
    ELSE exit_success(launch_app(tv_, argv_at(argv, 3), rs), "Launched app")

\* lines 745-924: the command is run on the session.
main_command(tv_, command, argv, ip_form, net, rs) ==
    CASE command = "on" -> exit_success(power_on(tv_, rs, net), "TV turned on")
      [] command = "toggle" -> exit_success(power_toggle(tv_, rs, net), "")
      [] command \in DOMAIN MainCommandMethod ->
            exit_success(tv_method(tv_, MainCommandMethod[command][1], rs, net),
                         MainCommandMethod[command][2])
      [] command = "status" -> main_status(tv_, rs)
      [] command = "inputs" -> main_inputs(tv_, rs)
      [] command = "input" -> main_input(tv_, argv, rs)
      [] command = "ch" -> main_ch(tv_, argv, ip_form, rs)
      [] command = "apps" -> Exit(Says(Eff0, <<"Available apps to launch:">>), 0)
      [] command = "app" -> main_app(tv_, argv, rs)
      [] OTHER -> Exit(Says(Says(Eff0, <<"ERROR: Unknown command">>), show_help.out), 1)

\* lines 712-734: what the command line says.  tv_ip and command are
\* strings; tv_ip is the saved address when the first word is a command.
main_args(argv, config_) ==
    LET first_arg == argv_at(argv, 1)
        ip_form == contains_dot(first_arg) \/ first_arg = "viziocasttv.local"
    IN  [ip_form |-> ip_form,
         tv_ip |-> IF ip_form THEN first_arg ELSE Get(config_, "ip", JNull).s,
         command |-> IF ip_form
                     THEN (IF Len(argv) > 2 THEN argv_at(argv, 2) ELSE "status")
                     ELSE first_arg,
         must_pair |-> /\ ip_form
                       /\ \/ Get(config_, "ip", JNull) # JStr(first_arg)
                          \/ ~Truthy(Get(config_, "auth_token", JNull))]

\* line 726: config = load_config() after a pairing: the record do_pairing
\* saved, or what the file held before when it saved none.
main_config(a, p, config_) ==
    IF a.must_pair /\ p.saved # <<>> THEN p.saved[Len(p.saved)] ELSE config_

\* lines 720-725: the pairing main starts when the config is not for tv_ip.
main_pairing(a, pin, arp, fs, rs) ==
    IF a.must_pair
    THEN Then(Says(Eff0, <<"No pairing found. Starting pairing process...">>),
              do_pairing(a.tv_ip, pin, arp, fs, rs))
    ELSE Eff0

\* The session main builds at line 742, if it gets that far.
NoSession == [ip |-> "none"]

main_session(config_, a, p) ==
    LET config2 == main_config(a, p, config_)
    IN  IF \/ a.must_pair /\ p.ret # "True"
           \/ ~a.ip_form /\ (~Truthy(Get(config_, "ip", JNull))
                             \/ ~Truthy(Get(config_, "auth_token", JNull)))
           \/ a.command = "help"
           \/ "auth_token" \notin DOMAIN config2
           \/ "mac" \notin DOMAIN config2
        THEN NoSession
        ELSE VizioTV(a.tv_ip, config2["auth_token"], config2["mac"])

\* lines 724-924, after the pairing p (if any); rs are the answers left.
main_paired(argv, config_, a, p, net, rs) ==
    LET config2 == main_config(a, p, config_)
    IN  IF a.must_pair /\ p.ret = "Raise" THEN p
        ELSE IF a.must_pair /\ p.ret # "True" THEN Exit(p, 1)
        ELSE IF ~a.ip_form /\ (~Truthy(Get(config_, "ip", JNull))
                               \/ ~Truthy(Get(config_, "auth_token", JNull)))
        THEN Exit(Says(Eff0, <<"ERROR: No saved config. Provide IP address first.">>), 1)
        ELSE IF a.command = "help" THEN Exit(Then(p, show_help), 0)
        ELSE IF "auth_token" \notin DOMAIN config2 \/ "mac" \notin DOMAIN config2
        THEN Raises(p, "KeyError")
        ELSE Then(p, main_command(main_session(config_, a, p), a.command, argv, a.ip_form,
                                  net, rs))

\* config_ is what load_config() returned at line 701.  The command line
\* and the pairing are worked out once (a, p) and the rest of main uses
\* their values.
main(argv, config_, pin, arp, fs, net, rs) ==
    IF Len(argv) < 2
    THEN Exit(show_help, IF Truthy(Get(config_, "ip", JNull)) THEN 0 ELSE 1)
    ELSE CHOOSE e \in UNION {{main_paired(argv, config_, a, p, net, Drop(rs, Len(p.sent))) :
                                 p \in {main_pairing(a, pin, arp, fs, rs)}} :
                             a \in {main_args(argv, config_)}} : TRUE

main_tv(argv, config_, pin, arp, fs, rs) ==
    IF Len(argv) < 2 THEN NoSession
    ELSE CHOOSE t \in UNION {{main_session(config_, a, p) :
                                 p \in {main_pairing(a, pin, arp, fs, rs)}} :
                             a \in {main_args(argv, config_)}} : TRUE

\* The command lines tried.
MainArgvs ==
    {<<Prog>>, <<Prog, TvIp>>, <<Prog, "help">>, <<Prog, "status">>,
     <<Prog, "on">>, <<Prog, TvIp, "off">>, <<Prog, OtherIp, "off">>, <<Prog, "toggle">>,
     <<Prog, "left">>, <<Prog, "inputs">>, <<Prog, "apps">>, <<Prog, "bogus">>,
     <<Prog, "ch">>, <<Prog, "ch", "5">>, <<Prog, TvIp, "ch", "5">>,
     <<Prog, "ch", "105">>, <<Prog, TvIp, "ch", "105">>,
     <<Prog, "input", "HDMI-1">>, <<Prog, TvIp, "input", "HDMI-1">>,
     <<Prog, "app", "Netflix">>, <<Prog, TvIp, "app", "Netflix">>}

\* The config files a run can find: none, one saved by a pairing with the
\* device, one saved for another address.
ConfigFiles ==
    {EmptyObj} \cup PairedConfigs
    \cup {[ip |-> JStr(OtherIp), auth_token |-> JStr("Zold"), mac |-> JNull]}

\* The answers tried for a request of a run.
MainAnswersTo(q) ==
    CASE q.endpoint = "/pairing/start" ->
            {Response(200, Body([ITEM |-> [PAIRING_REQ_TOKEN |-> JInt(1234)]]), FALSE),
             TransportError("ConnectionError")}
      [] q.endpoint = "/pairing/pair" ->
            {Response(200, Body([ITEM |-> [AUTH_TOKEN |-> JStr("Zabc123")]]), FALSE),
             Response(403, Body(EmptyObj), FALSE)}
      [] q.endpoint = "/state/device/power_mode" ->
            {Response(200, Body([ITEMS |-> <<[VALUE |-> JInt(v)]>>]), FALSE) : v \in {0, 1}}
            \cup {Response(401, Body(EmptyObj), FALSE), TransportError("ConnectTimeout")}
      [] q.endpoint = CurrentInputPath /\ q.method = "GET" ->
            {Response(200, Body([ITEMS |-> <<[VALUE |-> JStr("HDMI-1"), HASHVAL |-> JInt(11)]>>]), FALSE),
             Response(401, Body(EmptyObj), FALSE)}
      [] q.endpoint = NameInputPath ->
            {Response(200, Body([ITEMS |-> <<[CNAME |-> "hdmi1", VALUE |-> JStr("HDMI-1")]>>]), FALSE),
             TransportError("ConnectionError")}
      [] q.endpoint = "/app/current" ->
            {Response(200, Body([ITEM |-> [VALUE |-> [APP_ID |-> "1", NAME_SPACE |-> 3, MESSAGE |-> "None"]]]), FALSE),
             TransportError("ConnectionError")}
      [] OTHER ->
            {Response(200, Body(EmptyObj), FALSE), Response(401, Body(EmptyObj), FALSE),
             TransportError("ConnectionError")}

\* The runs of one command line: each request main sends gets one of the
\* answers tried, until main has no request left to send.
RECURSIVE MainRuns(_, _, _, _, _, _, _)
MainRuns(argv, config_, pin, arp, fs, net, rs) ==
    UNION {IF Len(e.sent) > Len(rs)
           THEN UNION {MainRuns(argv, config_, pin, arp, fs, net, Append(rs, answer)) :
                          answer \in MainAnswersTo(e.sent[Len(rs) + 1])}
           ELSE {rs} :
           e \in {main(argv, config_, pin, arp, fs, net, rs)}}

InitMain ==
    /\ tv = NoSession
    /\ config \in ConfigFiles
    /\ pc = "idle"
    /\ call = NoCall
    /\ rcvd = <<>>
    /\ sent = <<>>
    /\ wol = <<>>
    /\ out = <<>>
    /\ result = [ret |-> "None", val |-> JNull, exc |-> ""]
    /\ prev_hashval = JNull
    /\ log = <<>>
    /\ web = NoThreads

\* python vizio_control.py ...: one run of the program, from load_config
\* to sys.exit (or to the exception that ends it).
Main ==
    /\ pc = "idle"
    /\ \E argv \in MainArgvs, pin \in Pins :
        LET a == main_args(argv, config)
            pairs == Len(argv) >= 2 /\ a.must_pair
            wakes == Len(argv) >= 2 /\ a.command \in {"on", "toggle"}
        IN  \E arp \in (IF pairs THEN ArpOutputs ELSE {ArpNoEntry}),
               fs \in (IF pairs THEN FileSystems ELSE {"ok"}),
               net \in (IF wakes THEN Nets ELSE {"ok"}) :
                \E rs \in MainRuns(argv, config, pin, arp, fs, net, <<>>) :
                    \E e \in {main(argv, config, pin, arp, fs, net, rs)} :
                        /\ pc' = "done"
                        /\ call' = [op |-> "main", args |-> <<argv>>]
                        /\ rcvd' = rs
                        /\ sent' = e.sent
                        /\ wol' = e.wol
                        /\ out' = e.out
                        /\ result' = [ret |-> e.ret, val |-> e.val, exc |-> e.exc]
                        /\ log' = e.log
                        /\ config' = IF e.saved # <<>> THEN e.saved[Len(e.saved)] ELSE config
                        /\ tv' = main_tv(argv, config, pin, arp, fs, rs)
                        /\ UNCHANGED <<prev_hashval, web>>

\* The process has ended; the config file is what remains.
MainExit ==
    /\ pc = "done"
    /\ pc' = "idle"
    /\ call' = NoCall
    /\ rcvd' = <<>>
    /\ sent' = <<>>
    /\ wol' = <<>>
    /\ out' = <<>>
    /\ result' = [ret |-> "None", val |-> JNull, exc |-> ""]
    /\ log' = <<>>
    /\ tv' = NoSession
    /\ UNCHANGED <<config, prev_hashval, web>>

NextMain ==
    \/ Main
    \/ MainExit

SpecMain == InitMain /\ [][NextMain]_vars

(***************************************************************************)
(* The graphical remote (src/vizio_gui.py).  main takes the address from   *)
(* the saved config; RemoteGUI.__init__ exits unless the config holds an   *)
(* address and a token, and builds the session every button uses.  A       *)
(* button runs its handler to the end; an exception of the call is caught  *)
(* and shown as the status message, the last line of out here.             *)
(***************************************************************************)
\* line 89: self.tv = VizioTV(tv_ip, config['auth_token'])
RemoteGUI_tv(tv_ip, config_) == VizioTV(tv_ip, config_["auth_token"], JNull)

\* lines 189-224: the method each command of execute_command calls.
GuiCommandMethod ==
    [toggle |-> "power_toggle", on |-> "power_on", off |-> "power_off",
     vol_up |-> "volume_up", vol_down |-> "volume_down", mute |-> "mute",
     ch_up |-> "channel_up", ch_down |-> "channel_down",
     up |-> "key_up", down |-> "key_down", left |-> "key_left", right |-> "key_right",
     ok |-> "key_ok", back |-> "key_back", exit |-> "key_exit", menu |-> "key_menu",
     home |-> "key_home", info |-> "key_info"]

GuiCommands == DOMAIN GuiCommandMethod \cup {"bogus"}

\* The status message a handler leaves: the call succeeded, failed or raised.
gui_status(e) ==
    Returns(Says(e, <<IF e.ret = "Raise" THEN "Error"
                      ELSE IF e.ret = "True" THEN "ok" ELSE "Failed">>), "None")

\* lines 183-234
gui_execute_command(self, command, rs, net) ==
    IF command \in DOMAIN GuiCommandMethod
    THEN gui_status(tv_method(self, GuiCommandMethod[command], rs, net))
    ELSE gui_status(Returns(Eff0, "False"))

\* lines 236-246: the dialog is opened when the list is not empty.
gui_show_inputs(self, rs) ==
    LET inputs == get_inputs_list(self, rs)
    IN  IF inputs.ret = "Raise" THEN Returns(Says(inputs, <<"Error getting inputs">>), "None")
        ELSE IF inputs.val # <<>> THEN Returns(Says(inputs, <<"Select Input">>), "None")
        ELSE Returns(inputs, "None")

InitGui ==
    /\ config \in PairedConfigs
    /\ tv = RemoteGUI_tv(config["ip"].s, config)
    /\ pc = "idle"
    /\ call = NoCall
    /\ rcvd = <<>>
    /\ sent = <<>>
    /\ wol = <<>>
    /\ out = <<>>
    /\ result = [ret |-> "None", val |-> JNull, exc |-> ""]
    /\ prev_hashval = JNull
    /\ log = <<>>
    /\ web = NoThreads

GuiExecuteCommand ==
    /\ pc = "idle"
    /\ \E command \in GuiCommands :
        \E rs \in SeqsUpTo(IF command = "toggle" THEN PowerResponses \cup KeyResponses
                           ELSE KeyResponses,
                           IF command = "toggle" THEN 2 ELSE 1),
           net \in (IF command \in {"toggle", "on"} THEN Nets ELSE {"ok"}) :
            Do([op |-> "execute_command", args |-> <<command>>], rs,
               gui_execute_command(tv, command, rs, net))

GuiShowInputs ==
    /\ pc = "idle"
    /\ \E rs \in SeqsUpTo(InputsListResponses, 1) :
        Do([op |-> "show_inputs", args |-> <<>>], rs, gui_show_inputs(tv, rs))

\* lines 255-264
GuiSetInput ==
    /\ pc = "idle"
    /\ \E input_name \in InputNames, rs \in SeqsUpTo(CurrentInputResponses \cup KeyResponses, 2) :
        Do([op |-> "gui_set_input", args |-> <<input_name>>], rs,
           gui_status(set_input(tv, input_name, rs)))

\* lines 266-275
GuiLaunchApp ==
    /\ pc = "idle"
    /\ \E app_name \in AppNames, rs \in SeqsUpTo(AppCurrentResponses \cup KeyResponses, 2) :
        Do([op |-> "gui_launch_app", args |-> <<app_name>>], rs,
           gui_status(launch_app(tv, app_name, rs)))

NextGui ==
    \/ GuiExecuteCommand
    \/ GuiShowInputs
    \/ GuiSetInput
    \/ GuiLaunchApp
    \/ Return

SpecGui == InitGui /\ [][NextGui]_vars

(***************************************************************************)
(* Properties.                                                             *)
(***************************************************************************)
Done(o) == pc = "done" /\ call.op = o

Is200(r) == r.kind = "response" /\ r.status_code = 200
FailedExchange(r) == ~Is200(r)

\* The first item of a parsed 200 answer carries the field f.
FirstItemHas(r, f) ==
    /\ Is200(r)
    /\ r.json.valid
    /\ "ITEMS" \in DOMAIN r.json.obj
    /\ Len(r.json.obj["ITEMS"]) > 0
    /\ f \in DOMAIN r.json.obj["ITEMS"][1]

\* The ITEM of a parsed answer carries the field f.
ItemHas(r, f) ==
    /\ r.kind = "response"
    /\ r.json.valid
    /\ "ITEM" \in DOMAIN r.json.obj
    /\ f \in DOMAIN r.json.obj["ITEM"]

IsKeyCommand(q) == q.method = "PUT" /\ q.endpoint = "/key_command/"

\* C1: in every set_input call the GET of current_input comes before the
\* PUT, the PUT carries exactly the HASHVAL that this call's GET returned
\* (never the one an earlier call read), and when the GET fails or returns
\* no hash no PUT is sent and the call fails.
C1_SetInputHashFromOwnGet ==
    Done("set_input") =>
        /\ Len(sent) >= 1
        /\ sent[1].method = "GET" /\ sent[1].endpoint = CurrentInputPath
        /\ \A i \in 1..Len(sent) :
              sent[i].method = "PUT" =>
                 /\ i = 2
                 /\ sent[i].endpoint = CurrentInputPath
                 /\ FirstItemHas(rcvd[1], "HASHVAL")
                 /\ sent[i].data.HASHVAL = rcvd[1].json.obj["ITEMS"][1]["HASHVAL"]
                 /\ (prev_hashval # rcvd[1].json.obj["ITEMS"][1]["HASHVAL"]
                        => sent[i].data.HASHVAL # prev_hashval)
        /\ ~FirstItemHas(rcvd[1], "HASHVAL") =>
              /\ Len(sent) = 1
              /\ result.ret # "True"

\* A set_input call wrote with a hash that differs from the one the
\* previous set_input call had read.
C1_Witness ==
    /\ Done("set_input")
    /\ Len(sent) = 2
    /\ sent[2].method = "PUT"
    /\ result.ret = "True"
    /\ Truthy(prev_hashval)
    /\ sent[2].data.HASHVAL # prev_hashval

\* C2: an operation other than pairing on a session whose auth token is
\* absent or empty sends no request and returns a failure.
C2_NoTokenFailsFast ==
    (pc = "done" /\ call.op \notin {"pair_start", "pair_finish"} /\ ~Truthy(tv.auth_token)) =>
        /\ sent = <<>>
        /\ result.ret \in {"False", "None"}

\* The power state read of a finished power_toggle call was indeterminate.
ToggleStateUnknown ==
    /\ Done("power_toggle")
    /\ Len(rcvd) >= 1
    /\ get_power_state(tv, rcvd).ret = "None"

\* C3: when the power state is indeterminate, power_toggle invokes send_wol
\* exactly once and sends no key command (in particular not power-on 11/1).
C3_ToggleUnknownWolOnce ==
    ToggleStateUnknown =>
        /\ Len(wol) = 1
        /\ wol[1].mac = tv.mac
        /\ \A i \in 1..Len(sent) : ~IsKeyCommand(sent[i])
        /\ Len(sent) = 1

C3_Witness ==
    /\ ToggleStateUnknown
    /\ Len(wol) = 1
    /\ wol[1].outcome = "sent"
    /\ result.ret = "False"

\* C4: when the power state is indeterminate, power_toggle on a session
\* with no MAC on record still attempts the wake fallback and returns a
\* result to the caller without raising.
C4_ToggleUnknownReturns ==
    (ToggleStateUnknown /\ tv.mac = JNull) =>
        /\ result.ret # "Raise"
        /\ Len(wol) = 1

\* The characters of the channel string of a finished send_channel call.
ChannelOfCall == call.args[1]

\* C5: send_channel validates the whole string first: when some character
\* is not a digit it sends no key command and returns failure.
C5_ChannelValidatedBeforeSending ==
    (Done("send_channel")
       /\ \E i \in 1..Len(ChannelOfCall) : ~isdigit(ChannelOfCall[i])) =>
        /\ sent = <<>>
        /\ result.ret = "False"

\* The key command request of one decimal digit.
DigitRequest(q, c) ==
    /\ IsKeyCommand(q)
    /\ q.data = [KEYLIST |-> <<[CODESET |-> 0, CODE |-> 48 + DigitValue[c],
                                ACTION_ |-> "KEYPRESS"]>>]

\* C6: for a string of n decimal digits whose key commands all succeed,
\* send_channel sends exactly n key commands, the i-th for the i-th digit
\* with codeset 0, code 48+d and action KEYPRESS, and returns success.
C6_ChannelDigitsInOrder ==
    (Done("send_channel")
       /\ (\A i \in 1..Len(ChannelOfCall) : ChannelOfCall[i] \in DOMAIN DigitValue)
       /\ (\A i \in 1..Len(rcvd) : Is200(rcvd[i]))) =>
        /\ Len(sent) = Len(ChannelOfCall)
        /\ \A i \in 1..Len(sent) : DigitRequest(sent[i], ChannelOfCall[i])
        /\ result.ret = "True"

\* send_channel("105") sent the codes 49, 48, 53 in that order.
C6_Witness ==
    /\ Done("send_channel")
    /\ ChannelOfCall = <<"1", "0", "5">>
    /\ Len(sent) = 3
    /\ sent[1].data.KEYLIST[1].CODE = 49
    /\ sent[2].data.KEYLIST[1].CODE = 48
    /\ sent[3].data.KEYLIST[1].CODE = 53
    /\ result.ret = "True"

\* C7: once the key command of a digit fails (transport failure or a status
\* other than 200), send_channel sends nothing more: the failed command is
\* the last request, every digit up to it was sent once, and the call
\* returns failure.
C7_ChannelAbortsOnFailure ==
    Done("send_channel") =>
        \A i \in 1..Len(rcvd) :
            FailedExchange(rcvd[i]) =>
                /\ Len(sent) = i
                /\ Len(rcvd) = i
                /\ \A j \in 1..i : DigitRequest(sent[j], ChannelOfCall[j])
                /\ result.ret = "False"

\* The second of three digits failed: two commands were sent, not three.
C7_Witness ==
    /\ Done("send_channel")
    /\ Len(ChannelOfCall) = 3
    /\ Len(sent) = 2
    /\ Is200(rcvd[1])
    /\ FailedExchange(rcvd[2])
    /\ result.ret = "False"

\* The pairing state a finished pair_start or pair_finish call leaves: the
\* next state is reached when the call returned a token, Failed otherwise.
PairingState ==
    IF Done("pair_start") THEN (IF result.ret = "Value" THEN "Requested" ELSE "Failed")
    ELSE IF Done("pair_finish") THEN (IF result.ret = "Value" THEN "Paired" ELSE "Failed")
    ELSE "Idle"

\* C8 (as amended): pair_start reaches Requested, returning the token, if
\* and only if the answer has status 200 and carries a non-empty
\* PAIRING_REQ_TOKEN (one that is not 0, "" or null); every other answer
\* leads to Failed.
C8_PairStartRequestedIffToken ==
    Done("pair_start") =>
        /\ Len(rcvd) = 1
        /\ PairingState = "Requested" <=>
              /\ Is200(rcvd[1])
              /\ ItemHas(rcvd[1], "PAIRING_REQ_TOKEN")
              /\ Truthy(rcvd[1].json.obj["ITEM"]["PAIRING_REQ_TOKEN"])
        /\ PairingState = "Requested" =>
              result.val = rcvd[1].json.obj["ITEM"]["PAIRING_REQ_TOKEN"]
        /\ PairingState \in {"Requested", "Failed"}

C8_Witness ==
    /\ Done("pair_start")
    /\ PairingState = "Requested"
    /\ Is200(rcvd[1])
    /\ result.val = JInt(1234)

\* C8 (as claimed): pair_start reaches Requested if and only if the answer
\* has status 200 and contains a PAIRING_REQ_TOKEN field.
C8_PairStartRequestedIffField ==
    Done("pair_start") =>
        (PairingState = "Requested" <=>
            (Is200(rcvd[1]) /\ ItemHas(rcvd[1], "PAIRING_REQ_TOKEN")))

\* C9 (as amended): pair_finish reaches Paired, returning the auth token,
\* if and only if the answer has status 200 and carries a non-empty
\* AUTH_TOKEN; a 200 answer without one or with an empty one, another
\* status, or a transport failure leads to Failed.
C9_PairFinishPairedIffToken ==
    Done("pair_finish") =>
        /\ PairingState = "Paired" <=>
              /\ Len(rcvd) = 1
              /\ Is200(rcvd[1])
              /\ ItemHas(rcvd[1], "AUTH_TOKEN")
              /\ Truthy(rcvd[1].json.obj["ITEM"]["AUTH_TOKEN"])
        /\ PairingState = "Paired" =>
              result.val = rcvd[1].json.obj["ITEM"]["AUTH_TOKEN"]
        /\ PairingState \in {"Paired", "Failed"}

C9_Witness ==
    /\ Done("pair_finish")
    /\ PairingState = "Paired"
    /\ Is200(rcvd[1])
    /\ result.val = JStr("Zabc123")

\* C9 (as claimed): pair_finish reaches Paired if and only if the answer
\* has status 200 and contains an AUTH_TOKEN.
C9_PairFinishPairedIffField ==
    Done("pair_finish") =>
        (PairingState = "Paired" <=>
            (Len(rcvd) = 1 /\ Is200(rcvd[1]) /\ ItemHas(rcvd[1], "AUTH_TOKEN")))

\* C10: whenever the body of the answer to /pairing/pair contains
\* "INVALID", whatever the status, pair_finish prints the diagnosis that
\* the PIN may be incorrect or expired.
C10_InvalidBodyDiagnosed ==
    (Done("pair_finish") /\ Len(rcvd) = 1 /\ rcvd[1].kind = "response"
       /\ rcvd[1].text_invalid) =>
        \E i \in 1..Len(out) : out[i] = "The PIN may be incorrect or expired"

\* The token a successful answer to /pairing/start carries (None otherwise),
\* and the auth token a successful answer to /pairing/pair carries.
StartedToken(r) ==
    IF Is200(r) /\ ItemHas(r, "PAIRING_REQ_TOKEN")
    THEN r.json.obj["ITEM"]["PAIRING_REQ_TOKEN"] ELSE JNull

PairedToken(r) ==
    IF Is200(r) /\ ItemHas(r, "AUTH_TOKEN") THEN r.json.obj["ITEM"]["AUTH_TOKEN"] ELSE JNull

\* C11: do_pairing starts with /pairing/start; it sends /pairing/pair only
\* as its second request, after /pairing/start answered with a token, and
\* with that token (as the integer pair_finish makes of it); when
\* pair_start fails it sends nothing more and writes nothing; and the only
\* request that carries an AUTH header is the third one, sent after
\* /pairing/pair answered with an auth token, by a session built from
\* exactly that token.
C11_PairingHandshakeOrder ==
    Done("do_pairing") =>
        /\ Len(sent) >= 1
        /\ sent[1].endpoint = "/pairing/start"
        /\ \A i \in 1..Len(sent) :
              sent[i].endpoint = "/pairing/pair" =>
                  /\ i = 2
                  /\ Truthy(StartedToken(rcvd[1]))
                  /\ CanInt(StartedToken(rcvd[1]))
                  /\ sent[i].data.PAIRING_REQ_TOKEN = IntOf(StartedToken(rcvd[1]))
        /\ ~Truthy(StartedToken(rcvd[1])) =>
              Len(sent) = 1 /\ log = <<"request">> /\ result.ret \in {"False", "Raise"}
        /\ \A i \in 1..Len(sent) :
              (i >= 3 \/ "AUTH" \in DOMAIN sent[i].headers) =>
                  /\ i = 3
                  /\ sent[2].endpoint = "/pairing/pair"
                  /\ Truthy(PairedToken(rcvd[2]))
                  /\ "AUTH" \in DOMAIN sent[i].headers
                  /\ sent[i].headers.AUTH = PairedToken(rcvd[2]).s
                  /\ sent[i].endpoint = "/state/device/power_mode"

\* A complete pairing: three requests, the second with the token of the
\* first answer, the third with the auth token of the second answer.
C11_Witness ==
    /\ Done("do_pairing")
    /\ Len(sent) = 3
    /\ StartedToken(rcvd[1]) = JInt(1234)
    /\ sent[2].endpoint = "/pairing/pair"
    /\ sent[2].data.PAIRING_REQ_TOKEN = 1234
    /\ PairedToken(rcvd[2]) = JStr("Zabc123")
    /\ sent[3].headers.AUTH = "Zabc123"
    /\ result.ret = "True"

\* C12: no VizioTV operation raises: whatever the transport outcome and the
\* answer of the device (a body that is not JSON, a 200 answer with an
\* empty ITEMS list, a pairing token that is not a number, a session
\* without MAC), the call ends by returning a value.
C12_NoOperationRaises ==
    (pc = "done" /\ call.op # "do_pairing") => result.ret # "Raise"

\* The power state an answer to the power_mode read reports.
ReportsOn(r) ==
    FirstItemHas(r, "VALUE") /\ r.json.obj["ITEMS"][1]["VALUE"] = JInt(1)

ReportsOff(r) ==
    FirstItemHas(r, "VALUE") /\ r.json.obj["ITEMS"][1]["VALUE"] # JInt(1)

\* C13: get_power_state returns on (True) exactly when the answer is a 200
\* whose first item has VALUE 1, off (False) when it is a 200 whose first
\* item has another VALUE, and None whenever the read fails (transport
\* failure, 401, any other status); off is returned only for a 200 answer.
C13_PowerStateReading ==
    Done("get_power_state") =>
        /\ Len(rcvd) = 1
        /\ result.ret = "True" <=> ReportsOn(rcvd[1])
        /\ ReportsOff(rcvd[1]) => result.ret = "False"
        /\ FailedExchange(rcvd[1]) => result.ret = "None"
        /\ result.ret = "False" => Is200(rcvd[1])

\* A read answered with 401 is reported as indeterminate.
C13_Witness ==
    /\ Done("get_power_state")
    /\ Len(rcvd) = 1
    /\ rcvd[1].kind = "response"
    /\ rcvd[1].status_code = 401
    /\ result.ret = "None"

\* C14: when the power state read by power_toggle is known, the toggle
\* sends exactly one key command after the read: power off (11/0) and no
\* wake packet if the TV is on, power on (11/1) if it is off; and it
\* returns the result of that command (True exactly on a 200 answer).
C14_ToggleKnownState ==
    (Done("power_toggle") /\ Len(rcvd) >= 1) =>
        /\ ReportsOn(rcvd[1]) =>
              /\ Len(sent) = 2
              /\ IsKeyCommand(sent[2])
              /\ sent[2].data = KeyList(11, 0, "KEYPRESS")
              /\ wol = <<>>
              /\ result.ret \in {"True", "False"}
              /\ result.ret = "True" <=> Is200(rcvd[2])
        /\ ReportsOff(rcvd[1]) =>
              /\ Len(sent) = 2
              /\ IsKeyCommand(sent[2])
              /\ sent[2].data = KeyList(11, 1, "KEYPRESS")
              /\ Len(wol) = (IF Truthy(tv.mac) THEN 1 ELSE 0)
              /\ result.ret \in {"True", "False"}
              /\ result.ret = "True" <=> Is200(rcvd[2])

\* The TV was on and the toggle turned it off.
C14_Witness ==
    /\ Done("power_toggle")
    /\ Len(rcvd) = 2
    /\ ReportsOn(rcvd[1])
    /\ sent[2].data.KEYLIST[1].CODESET = 11
    /\ sent[2].data.KEYLIST[1].CODE = 0
    /\ Is200(rcvd[2])
    /\ result.ret = "True"

\* C15: power_on with a MAC on the session invokes send_wol once, before
\* the key command; without a MAC it sends no wake packet; in both cases,
\* and whether or not the wake packet could be sent, it then sends the
\* power-on key command (11/1) exactly once, and it returns True exactly
\* when that command is answered with 200.
C15_PowerOnWakeThenKey ==
    Done("power_on") =>
        /\ Truthy(tv.mac) => (log = <<"wol", "request">> /\ Len(wol) = 1 /\ wol[1].mac = tv.mac)
        /\ ~Truthy(tv.mac) => (log = <<"request">> /\ wol = <<>>)
        /\ Len(sent) = 1
        /\ IsKeyCommand(sent[1])
        /\ sent[1].data = KeyList(11, 1, "KEYPRESS")
        /\ result.ret \in {"True", "False"}
        /\ result.ret = "True" <=> Is200(rcvd[1])

\* The wake packet could not be sent; the key command went out and succeeded.
C15_Witness ==
    /\ Done("power_on")
    /\ Truthy(tv.mac)
    /\ Len(wol) = 1
    /\ wol[1].outcome = "OSError"
    /\ log = <<"wol", "request">>
    /\ sent[1].data.KEYLIST[1].CODE = 1
    /\ result.ret = "True"

\* The app name of the launch_app call.
AppOfCall == call.args[1]

\* C16: the launch request of launch_app is a PUT to /app/launch whose VALUE
\* has the catalog's APP_ID (a string) and NAME_SPACE (an integer), and as
\* MESSAGE the literal string "None" when the catalog has no message for
\* the app and the catalog's message unchanged when it has one.
C16_LaunchAppPayload ==
    Done("launch_app") =>
        \A i \in 1..Len(sent) :
            sent[i].endpoint = "/app/launch" =>
                LET entry == apps[lower(AppOfCall)]
                IN  /\ sent[i].method = "PUT"
                    /\ sent[i].data.VALUE.APP_ID = entry.app_id
                    /\ sent[i].data.VALUE.NAME_SPACE = entry.name_space
                    /\ entry.name_space \in Nat
                    /\ entry.message = JNull => sent[i].data.VALUE.MESSAGE = "None"
                    /\ entry.message # JNull => sent[i].data.VALUE.MESSAGE = entry.message.s

\* Netflix has no message in the catalog: "None" is sent.
C16_Witness ==
    /\ Done("launch_app")
    /\ AppOfCall = "Netflix"
    /\ Len(sent) = 2
    /\ sent[2].endpoint = "/app/launch"
    /\ sent[2].data.VALUE = [APP_ID |-> "1", NAME_SPACE |-> 3, MESSAGE |-> "None"]

\* What the caller of a finished call holds: the returned value or the
\* exception.
Outcome(e) == [ret |-> e.ret, val |-> e.val, exc |-> e.exc]

\* The launch request of this launch_app call was sent and failed: no
\* response, 401, or any other status than 200.
LaunchFailed ==
    /\ Done("launch_app")
    /\ Len(sent) = 2
    /\ sent[2].endpoint = "/app/launch"
    /\ FailedExchange(rcvd[2])

\* C17: launch_app finds the name whatever its case, and the failure it
\* gives for a name that is not in the catalog differs, for its caller,
\* from the failure of every launch that failed in transport or
\* authentication.
C17_UnknownAppDistinct ==
    /\ (Done("launch_app") /\ lower(AppOfCall) \in DOMAIN apps) =>
          \A i \in 1..Len(out) : out[i] # "ERROR: Unknown app"
    /\ LaunchFailed =>
          \A app_name \in AppNames, rs \in SeqsUpTo(AppCurrentResponses, 1) :
              LET unknown == launch_app(tv, app_name, rs)
              IN  (lower(app_name) \notin DOMAIN apps /\ Len(unknown.sent) = Len(rs)
                     /\ unknown.ret # "Raise")
                  => result # Outcome(unknown)

\* Two requests of one call with the same method, endpoint and body.
SameRequest(p, q) ==
    p.method = q.method /\ p.endpoint = q.endpoint /\ p.data = q.data

\* C18: no call repeats a request: a request that failed is never followed
\* by the same request again, a call other than send_channel (whose digits
\* may repeat) never sends the same request twice, send_channel sends at
\* most one key command per character, and set_input sends at most one PUT
\* and returns False when the device rejects it.
C18_NoAutomaticRetry ==
    pc = "done" =>
        /\ \A i \in 1..Len(sent) :
              (i < Len(sent) /\ FailedExchange(rcvd[i])) => ~SameRequest(sent[i], sent[i + 1])
        /\ call.op # "send_channel" =>
              \A i, j \in 1..Len(sent) : SameRequest(sent[i], sent[j]) => i = j
        /\ call.op = "send_channel" => Len(sent) <= Len(ChannelOfCall)
        /\ call.op = "set_input" =>
              /\ Cardinality({i \in 1..Len(sent) : sent[i].method = "PUT"}) <= 1
              /\ \A i \in 1..Len(sent) :
                    (sent[i].method = "PUT" /\ FailedExchange(rcvd[i])) =>
                        (i = Len(sent) /\ result.ret = "False")

\* The device rejected the PUT of set_input: one GET, one PUT, failure.
C18_Witness ==
    /\ Done("set_input")
    /\ Len(sent) = 2
    /\ sent[1].method = "GET"
    /\ sent[2].method = "PUT"
    /\ rcvd[2].kind = "response"
    /\ rcvd[2].status_code = 500
    /\ result.ret = "False"

\* The threads whose call on the shared session is waiting for the answer
\* to a request it has sent.
InFlight == {t \in DOMAIN web : web[t].phase = "running"}

\* C19: at most one command is in flight on the device session at any
\* time, also when the commands come through the web server's one shared
\* VizioTV object.
C19_OneCommandInFlight == Cardinality(InFlight) <= 1

\* The codeset and code the specification's key table gives each
\* remote-control action.
RemoteKeyTable ==
    [power_on |-> <<11, 1>>, power_off |-> <<11, 0>>,
     volume_up |-> <<5, 1>>, volume_down |-> <<5, 0>>, mute |-> <<5, 4>>,
     key_up |-> <<3, 8>>, key_down |-> <<3, 0>>, key_left |-> <<3, 1>>,
     key_right |-> <<3, 7>>, key_ok |-> <<3, 2>>,
     key_back |-> <<4, 0>>, key_exit |-> <<4, 1>>, key_menu |-> <<4, 8>>,
     key_home |-> <<4, 3>>, key_info |-> <<4, 6>>,
     channel_up |-> <<8, 1>>, channel_down |-> <<8, 0>>]

\* C20: every remote-control action sends one request, a PUT to
\* /key_command/ whose KEYLIST has exactly one command, with ACTION
\* KEYPRESS and the codeset and code of the key table.
C20_KeyCommandTable ==
    (pc = "done" /\ call.op \in DOMAIN RemoteKeyTable) =>
        /\ Len(sent) = 1
        /\ sent[1].method = "PUT"
        /\ sent[1].endpoint = "/key_command/"
        /\ Len(sent[1].data.KEYLIST) = 1
        /\ sent[1].data.KEYLIST[1] =
              [CODESET |-> RemoteKeyTable[call.op][1],
               CODE |-> RemoteKeyTable[call.op][2],
               ACTION_ |-> "KEYPRESS"]

\* key_right was sent as codeset 3, code 7.
C20_Witness ==
    /\ Done("key_right")
    /\ Len(sent) = 1
    /\ sent[1].data.KEYLIST[1].CODESET = 3
    /\ sent[1].data.KEYLIST[1].CODE = 7
    /\ sent[1].data.KEYLIST[1].ACTION_ = "KEYPRESS"

\* The line _make_request is to print for a failed exchange of each kind.
FailureLine(r) ==
    CASE r.kind \in {"ConnectTimeout", "ReadTimeout"} -> "ERROR: Connection timeout"
      [] r.kind = "ConnectionError" -> "ERROR: Cannot connect"
      [] OTHER -> "ERROR: Unexpected error"

\* C21: a failed exchange is classified as exactly one of Timeout (connect
\* timeout and read timeout alike), ConnectionError (host unreachable or
\* refusing) and Unexpected (anything else): a call whose only exchange got
\* no response reports the line of that kind first.
C21_TransportFailureKinds ==
    (pc = "done" /\ Len(rcvd) = 1 /\ IsNone(rcvd[1])) =>
        (Len(out) >= 1 /\ out[1] = FailureLine(rcvd[1]))

\* The operations of a paired session that end with the exchange whose
\* status they report (power_toggle goes on after its read: C3, C4).
AuthenticatedOps ==
    {"get_power_state", "power_on", "power_off", "volume_up", "volume_down", "mute",
     "set_input", "send_channel", "launch_app"} \cup DOMAIN KeyTable

\* The lines with which the code reports an authentication failure.
AuthFailureLines ==
    {"ERROR: Authentication failed. Your auth token may be invalid or expired.",
     "ERROR: Authentication failed. Your auth token is invalid.",
     "ERROR: Authentication failed"}

\* C22: an authenticated operation whose last exchange is answered with
\* 401 fails and reports an authentication failure (the least the claim
\* asks for: a line that names it, apart from the operation's other
\* failures), whichever operation it is: key commands sent through
\* send_key, set_input, launch_app, get_power_state.
C22_UnauthorizedIsAuthFailure ==
    (pc = "done" /\ call.op \in AuthenticatedOps /\ Len(rcvd) >= 1
       /\ rcvd[Len(rcvd)].kind = "response" /\ rcvd[Len(rcvd)].status_code = 401) =>
        /\ result.ret \in {"False", "None"}
        /\ \E i \in 1..Len(out) : out[i] \in AuthFailureLines

\* A 200 answer that was parsed.
Parsed200(r) == Is200(r) /\ r.json.valid

\* C23: a 200 answer that lacks the field the operation reads is a
\* failure, never a value: get_power_state without VALUE reports neither on
\* nor off, pair_start without PAIRING_REQ_TOKEN and pair_finish without
\* AUTH_TOKEN return no token, set_input without HASHVAL does not succeed.
C23_MissingFieldIsFailure ==
    /\ (Done("get_power_state") /\ Parsed200(rcvd[1]) /\ ~FirstItemHas(rcvd[1], "VALUE"))
          => result.ret \notin {"True", "False"}
    /\ (Done("pair_start") /\ Parsed200(rcvd[1]) /\ ~ItemHas(rcvd[1], "PAIRING_REQ_TOKEN"))
          => result.ret # "Value"
    /\ (Done("pair_finish") /\ Len(rcvd) = 1 /\ Parsed200(rcvd[1])
          /\ ~ItemHas(rcvd[1], "AUTH_TOKEN"))
          => result.ret # "Value"
    /\ (Done("set_input") /\ Parsed200(rcvd[1]) /\ ~FirstItemHas(rcvd[1], "HASHVAL"))
          => result.ret # "True"

\* The simple user-facing actions: one key each, or the launch of an app
\* of the catalog.
SimpleAction ==
    \/ call.op \in {"power_off", "volume_up", "volume_down", "mute"} \cup DOMAIN KeyTable
    \/ (call.op = "launch_app" /\ lower(AppOfCall) \in DOMAIN apps)

\* C27: each simple user-facing action (power off, volume up/down, mute,
\* the navigation keys, channel up/down, the launch of a catalog app) makes
\* exactly one exchange with the device.
C27_OneExchangePerAction ==
    (pc = "done" /\ SimpleAction) => Len(sent) = 1

\* C24: no step changes the session object: whatever operation runs, and
\* however it ends, the address, port, MAC, auth token and headers of the
\* session it ran on are afterwards what they were at construction.
C24_SessionNeverMutated == [][tv' = tv]_vars

\* pair_finish obtained a token on a session that had none, and the session
\* still has none.
C24_Witness ==
    /\ Done("pair_finish")
    /\ result.ret = "Value"
    /\ result.val = JStr("Zabc123")
    /\ tv.auth_token = JNull
    /\ "AUTH" \notin DOMAIN tv.headers

\* C25: every request of a session constructed with a non-empty token has
\* the headers Content-Type: application/json and AUTH: that token, and
\* nothing else; the requests of a session without token, such as the two
\* pairing requests of do_pairing, have Content-Type only.
C25_RequestHeaders ==
    pc = "done" =>
        /\ call.op # "do_pairing" =>
              \A i \in 1..Len(sent) :
                  sent[i].headers =
                      IF Truthy(tv.auth_token)
                      THEN [Content_Type |-> "application/json", AUTH |-> tv.auth_token.s]
                      ELSE [Content_Type |-> "application/json"]
        /\ call.op = "do_pairing" =>
              \A i \in 1..Len(sent) :
                  IF i <= 2
                  THEN sent[i].headers = [Content_Type |-> "application/json"]
                  ELSE sent[i].headers = [Content_Type |-> "application/json",
                                          AUTH |-> PairedToken(rcvd[2]).s]

\* A key command of a paired session went out with its token.
C25_Witness ==
    /\ Done("key_ok")
    /\ tv.auth_token = JStr("Zabc123")
    /\ Len(sent) = 1
    /\ sent[1].headers = [Content_Type |-> "application/json", AUTH |-> "Zabc123"]

\* The places in the log of the current call where the config file was
\* written.
Saves == {i \in 1..Len(log) : log[i] = "save"}

\* C28: the config file changes only by a write of do_pairing; a call
\* writes it at most once; it is written only after /pairing/pair answered
\* with an auth token, and then holds exactly the address do_pairing was
\* given, that token, and the MAC; no command operation writes it.
C28_ConfigWrittenOnceAfterPairing ==
    [][/\ Cardinality(Saves') <= 1
       /\ config' # config => Saves' # {}
       /\ Saves' # {} =>
             /\ call'.op = "do_pairing"
             /\ Len(rcvd') >= 2
             /\ Truthy(PairedToken(rcvd'[2]))
             /\ DOMAIN config' = {"ip", "auth_token", "mac"}
             /\ config'["ip"] = JStr(call'.args[1])
             /\ config'["auth_token"] = PairedToken(rcvd'[2])]_vars

\* do_pairing wrote the record of the pairing it completed.
C28_Witness ==
    /\ Done("do_pairing")
    /\ Saves = {3}
    /\ config["ip"] = JStr(TvIp)
    /\ config["auth_token"] = JStr("Zabc123")
    /\ PairedToken(rcvd[2]) = JStr("Zabc123")

\* The MAC bytes of the send_wol call.
MacBytesOfCall == call.args[1]

\* C26: for a valid MAC in colon or hyphen notation, upper or lower case,
\* send_wol builds exactly one packet of 102 bytes, six bytes 255 followed
\* by the six bytes of the MAC sixteen times over; the packet depends on
\* the bytes only, not on the notation; and it is sent as one datagram to
\* 255.255.255.255, port 9.
C26_WakePacket ==
    Done("send_wol") =>
        /\ Len(wol) = 1
        /\ wol[1].outcome \in {"sent", "OSError"}
        /\ Len(wol[1].packet) = 102
        /\ \A i \in 1..102 :
              wol[1].packet[i] = IF i <= 6 THEN 255 ELSE MacBytesOfCall[((i - 7) % 6) + 1]
        /\ wol[1].outcome = "sent" => (wol[1].to = "255.255.255.255" /\ wol[1].port = 9)

\* A MAC in lower case with hyphens was packed and sent.
C26_Witness ==
    /\ Done("send_wol")
    /\ MacBytesOfCall = <<10, 177, 255, 10, 177, 255>>
    /\ call.args[2] = "-"
    /\ call.args[3] = FALSE
    /\ wol[1].mac = <<"0", "a", "-", "b", "1", "-", "f", "f", "-", "0", "a", "-", "b", "1", "-", "f", "f">>
    /\ wol[1].outcome = "sent"
    /\ Len(wol[1].packet) = 102
    /\ wol[1].packet[7] = 10
    /\ wol[1].packet[102] = 255

\* The arp output of the get_mac_from_ip call.
ArpOfCall == call.args[2]

\* The 17 characters of text from p on have the form of a MAC address: six
\* groups of two hexadecimal digits with a colon or a hyphen between them.
MacShapedAt(text, p) ==
    /\ p >= 1
    /\ p + 16 <= Len(text)
    /\ \A g \in 0..5 : IsHex(text[p + 3 * g]) /\ IsHex(text[p + 3 * g + 1])
    /\ \A g \in 0..4 : text[p + 3 * g + 2] \in {":", "-"}

\* C30: get_mac_from_ip returns the first stretch of the arp output that
\* has the form of a MAC address, and None when the output has none.
C30_FirstMacInArpOutput ==
    Done("get_mac_from_ip") =>
        /\ result.ret \in {"Value", "None"}
        /\ result.ret = "None" <=> ~\E p \in 1..Len(ArpOfCall) : MacShapedAt(ArpOfCall, p)
        /\ result.ret = "Value" =>
              \E p \in 1..Len(ArpOfCall) :
                  /\ MacShapedAt(ArpOfCall, p)
                  /\ \A q \in 1..(p - 1) : ~MacShapedAt(ArpOfCall, q)
                  /\ result.val = SubSeq(ArpOfCall, p, p + 16)

\* Of two addresses in the output, the first (in hyphen notation) is
\* returned.
C30_Witness ==
    /\ Done("get_mac_from_ip")
    /\ MacShapedAt(ArpOfCall, 21)
    /\ MacShapedAt(ArpOfCall, 38)
    /\ result.ret = "Value"
    /\ result.val = <<"0", "A", "-", "B", "1", "-", "F", "F", "-", "0", "0", "-", "1", "c", "-", "9", "D">>

\* The command line of the run, and its words from the command word on.
ArgvOfCall == call.args[1]

CommandWords ==
    IF ArgvOfCall[2] \in {TvIp, OtherIp}
    THEN SubSeq(ArgvOfCall, 3, Len(ArgvOfCall))
    ELSE SubSeq(ArgvOfCall, 2, Len(ArgvOfCall))

\* The run found its pairing in the config file and got to the command.
RanCommand ==
    /\ Done("main")
    /\ Len(ArgvOfCall) >= 2
    /\ tv # NoSession
    /\ \A i \in 1..Len(sent) : sent[i].endpoint \notin {"/pairing/start", "/pairing/pair"}

\* C29: with or without a leading tv_ip, the word after the command word
\* is the argument: "ch <num>" sends the key commands of the digits of
\* <num>, and "input <name>" calls set_input, which reads the current
\* input and then puts <name>; with all answers 200 the run exits with 0.
C29_ArgumentFollowsCommandWord ==
    (RanCommand /\ Len(CommandWords) = 2) =>
        /\ CommandWords[1] = "ch" =>
              LET digits == ArgChars(CommandWords[2])
              IN  /\ Len(sent) >= 1
                  /\ DigitRequest(sent[1], digits[1])
                  /\ (\A i \in 1..Len(rcvd) : Is200(rcvd[i])) =>
                        /\ Len(sent) = Len(digits)
                        /\ \A i \in 1..Len(sent) : DigitRequest(sent[i], digits[i])
                        /\ result = [ret |-> "Exit", val |-> JInt(0), exc |-> ""]
        /\ CommandWords[1] = "input" =>
              /\ Len(sent) >= 1
              /\ sent[1].method = "GET" /\ sent[1].endpoint = CurrentInputPath
              /\ Len(sent) = 2 => (sent[2].method = "PUT"
                                   /\ sent[2].data.VALUE = CommandWords[2])
              /\ (\A i \in 1..Len(rcvd) : Is200(rcvd[i])) =>
                    result = [ret |-> "Exit", val |-> JInt(0), exc |-> ""]

\* C31: in a handshake, a pair_start with any device name followed by
\* pair_finish with the token it returned, the /pairing/pair request
\* carries the DEVICE_ID the /pairing/start request carried.
C31_HandshakeDeviceId ==
    [][(Done("pair_start") /\ pc' = "done" /\ call'.op = "pair_finish" /\ Len(sent') = 1) =>
          /\ Len(sent) = 1
          /\ sent'[1].endpoint = "/pairing/pair"
          /\ sent'[1].data.DEVICE_ID = sent[1].data.DEVICE_ID]_vars

\* C32: launch_app with a name that is not in the catalog sends no request
\* at all and returns failure.
C32_UnknownAppSendsNothing ==
    (Done("launch_app") /\ lower(AppOfCall) \notin DOMAIN apps) =>
        /\ sent = <<>>
        /\ rcvd = <<>>
        /\ result.ret = "False"

\* The MAC of the persisted record.
RecordMac == Get(config, "mac", JNull)

\* C33: the session of a front end has the MAC of the persisted record:
\* when the record holds one, a power-on issued through the front end is
\* made on a session with that MAC and sends the wake broadcast to it.
C33_PowerOnWakesRecordMac ==
    (Done("execute_command") /\ call.args = <<"on">> /\ Truthy(RecordMac)) =>
        /\ tv.mac = RecordMac
        /\ Len(wol) = 1
        /\ wol[1].mac = RecordMac

\* How many of the requests of a run do_pairing sent: /pairing/start,
\* /pairing/pair and the read that tests the new token come first.
PairingPrefix(requests) ==
    IF Len(requests) >= 1 /\ requests[1].endpoint = "/pairing/start"
    THEN (IF Len(requests) < 3 THEN Len(requests) ELSE 3)
    ELSE 0

\* The record holds a non-empty address and a non-empty token.
IsSessionRecord(record) ==
    Truthy(Get(record, "ip", JNull)) /\ Truthy(Get(record, "auth_token", JNull))

\* C34: in a run of the command line, every command request goes to the
\* address of the session record then on file and carries its non-empty
\* token; a run given an address for which the file has no such record
\* starts by pairing; a run given no address without such a record sends
\* nothing and exits with 1; and a run whose pairing did not succeed sends
\* no command.
C34_CommandOnlyWithSessionRecord ==
    [][(pc = "idle" /\ pc' = "done" /\ call'.op = "main") =>
        LET argv == call'.args[1]
            n == PairingPrefix(sent')
            address_given == Len(argv) >= 2 /\ argv[2] \in {TvIp, OtherIp}
        IN  /\ \A i \in (n + 1)..Len(sent') :
                  /\ IsSessionRecord(config')
                  /\ config'["ip"] = JStr(sent'[i].ip)
                  /\ "AUTH" \in DOMAIN sent'[i].headers
                  /\ sent'[i].headers.AUTH = config'["auth_token"].s
            /\ (address_given /\ (~IsSessionRecord(config) \/ config["ip"] # JStr(argv[2]))) =>
                  n >= 1
            /\ (~address_given /\ ~IsSessionRecord(config)) =>
                  /\ sent' = <<>>
                  /\ result' = [ret |-> "Exit", val |-> JInt(1), exc |-> ""]
            /\ (n >= 1 /\ \A k \in 1..Len(out') : out'[k] # "Connection successful!") =>
                  /\ Len(sent') = n
                  /\ result'.ret \in {"Exit", "Raise"}
                  /\ result'.ret = "Exit" => result'.val = JInt(1)]_vars

\* C35: do_pairing returns True exactly when it has written the session
\* record; when it returns failure it has written none.
C35_SuccessIffRecordWritten ==
    Done("do_pairing") =>
        /\ result.ret = "True" <=> Saves # {}
        /\ result.ret # "True" => config = EmptyObj

\* The calls of the core operations: every method of VizioTV with the
\* arguments tried, and what the socket does for those that wake the TV.
CoreCalls ==
    {[op |-> o, args |-> <<>>, net |-> "ok"] :
        o \in {"get_power_state", "get_current_input", "get_inputs_list",
               "get_current_app_settings"} \cup SimpleKeyMethods \cup DOMAIN KeyTable}
    \cup {[op |-> o, args |-> <<>>, net |-> n] : o \in {"power_on", "power_toggle"}, n \in Nets}
    \cup {[op |-> "pair_start", args |-> <<d>>, net |-> "ok"] : d \in DeviceNames}
    \cup {[op |-> "pair_finish", args |-> <<t, p>>, net |-> "ok"] :
            t \in PairingReqTokens, p \in Pins}
    \cup {[op |-> "set_input", args |-> <<i>>, net |-> "ok"] : i \in InputNames}
    \cup {[op |-> "launch_app", args |-> <<a>>, net |-> "ok"] : a \in AppNames}
    \cup {[op |-> "send_channel", args |-> <<c>>, net |-> "ok"] : c \in ChannelStrings}

\* The call o on the session, with the answers rs.
CoreEffect(o, rs) ==
    CASE o.op = "get_power_state" -> get_power_state(tv, rs)
      [] o.op = "get_current_input" -> get_current_input(tv, rs)
      [] o.op = "get_inputs_list" -> get_inputs_list(tv, rs)
      [] o.op = "get_current_app_settings" -> get_current_app_settings(tv, rs)
      [] o.op = "pair_start" -> pair_start(tv, o.args[1], rs)
      [] o.op = "pair_finish" -> pair_finish(tv, o.args[1], o.args[2], rs)
      [] o.op = "set_input" -> set_input(tv, o.args[1], rs)
      [] o.op = "launch_app" -> launch_app(tv, o.args[1], rs)
      [] o.op = "send_channel" -> send_channel(tv, o.args[1], rs)
      [] OTHER -> tv_method(tv, o.op, rs, o.net)

\* The exchanges the claim allows a call.
ExchangeBound(o) ==
    CASE o.op = "send_channel" -> Len(o.args[1])
      [] o.op \in {"set_input", "power_toggle", "launch_app"} -> 2
      [] OTHER -> 1

\* Every answer the device can give to a request.
CoreAnswersTo(q) ==
    CASE q.endpoint = "/pairing/start" -> PairStartResponses
      [] q.endpoint = "/pairing/pair" -> PairFinishResponses
      [] OTHER -> AnswersTo(q)

\* The call o, having got the answers rs, never sends more than cap
\* requests, however the device goes on answering.  A call that has sent
\* more requests than it has answers is waiting for the answer to request
\* number Len(rs) + 1.
RECURSIVE StopsWithin(_, _, _)
StopsWithin(o, rs, cap) ==
    \A e \in {CoreEffect(o, rs)} :
        IF Len(e.sent) <= Len(rs) THEN Len(e.sent) <= cap
        ELSE /\ Len(rs) < cap
             /\ \A answer \in CoreAnswersTo(e.sent[Len(rs) + 1]) :
                    StopsWithin(o, Append(rs, answer), cap)

\* C36: every core operation ends after a bounded number of exchanges,
\* whatever the device answers: a finished call has sent at most one
\* request per digit (send_channel), two (set_input, power_toggle,
\* launch_app) or one (every other operation) and got an answer to each;
\* and on an idle session no call can be made to send more than that by
\* any sequence of answers.
C36_BoundedExchanges ==
    /\ (pc = "done" /\ call.op \in {o.op : o \in CoreCalls}) =>
          /\ Len(sent) <= ExchangeBound([op |-> call.op, args |-> call.args])
          /\ Len(rcvd) = Len(sent)
    /\ pc = "idle" => \A o \in CoreCalls : StopsWithin(o, <<>>, ExchangeBound(o))

\* A toggle that read the state and sent the power key: two exchanges.
C36_Witness ==
    /\ Done("power_toggle")
    /\ Len(sent) = 2
    /\ Len(rcvd) = 2
    /\ sent[1].endpoint = "/state/device/power_mode"
    /\ sent[2].endpoint = "/key_command/"

====
